---------------------------- MODULE Spec2Model ----------------------------
(***************************************************************************)
(* A model of the Qt4 pretty-printers of libbbcascades.so.1-gdb.py: the    *)
(* dispatch function lookup_function over pretty_printers_dict, the gate   *)
(* functions isReferenceCorrect / isSizeCorrect, the to_string summaries   *)
(* and the children()/next() enumerations of the decoders.                 *)
(*                                                                         *)
(* The debuggee's memory and the answers of the host (gdb) are inputs,     *)
(* chosen in Init and never changed: the program only reads them.          *)
(*                                                                         *)
(* Python values are encoded as follows.  None is the string "None" for    *)
(* attributes, NoneV for pointers, NoneT for types.  An attribute that was *)
(* never assigned is "unset" (reading it raises AttributeError).  The      *)
(* outcome of a call is a record whose field exc is "" when the call       *)
(* returned and the name of the exception class when it raised.            *)
(***************************************************************************)
EXTENDS Integers, Sequences, FiniteSets

VARIABLES
    vtype,      \* val.type as the host reports it: [layers, tag, fails]
    mem,        \* the debuggee's memory and the host's answers (read-only)
    dictOrder,  \* iteration order of pretty_printers_dict (a Python 2 dict), as far
                \* as lookup_function can tell: the order of the matching entries
    pc,         \* "start", "ready" (a decoder was returned), "iter", "done"
    looked,     \* outcome of lookup_function(val)
    printer,    \* the decoder object lookup_function returned
    summary,    \* outcome of the last to_string()
    it,         \* the iterator object children() returned
    yielded,    \* what next() returned so far, in order
    iterEnd,    \* "" while iterating, else the exception that ended it
    summary2,   \* outcome of a second to_string() on the same decoder
    typeCache,  \* the module's typeCache: type name -> type, or None
    asked       \* the names the last call passed to lookupType

vars == <<vtype, mem, dictOrder, pc, looked, printer, summary, it, yielded, iterEnd,
          summary2, typeCache, asked>>

-----------------------------------------------------------------------------
(* Program constants *)

REF_LIMIT == 512
SIZE_LIMIT == 512

(* Bounds of the model *)

\* Nodes of a linked structure (QMap, QHash, QSet, QLinkedList)
MaxNodes == 3
\* Buckets of a hash table
MaxBuckets == 3
\* next() is not called again after this many results
MaxYield == 513

-----------------------------------------------------------------------------
(* Encodings *)

None == "None"
NoneV == -1                 \* the Python value None where a pointer is expected
Unset == -2                 \* an attribute that was never assigned
Null == 0                   \* the null pointer of the debuggee
NoneT == <<"None">>         \* None where a gdb.Type is expected; str(None) = "None"
TagNone == <<"<no tag>">>   \* type.tag is None

Ret(v) == [exc |-> "", v |-> v]
Raise(e, v) == [exc |-> e, v |-> v]

-----------------------------------------------------------------------------
(* Type names as the character sequences that re.search scans *)

S_QString == <<"Q","S","t","r","i","n","g">>
S_QByteArray == <<"Q","B","y","t","e","A","r","r","a","y">>
S_QListLt == <<"Q","L","i","s","t","<">>
S_QStringList == <<"Q","S","t","r","i","n","g","L","i","s","t">>
S_QQueue == <<"Q","Q","u","e","u","e">>
S_QVectorLt == <<"Q","V","e","c","t","o","r","<">>
S_QStackLt == <<"Q","S","t","a","c","k","<">>
S_QLinkedListLt == <<"Q","L","i","n","k","e","d","L","i","s","t","<">>
S_QMapLt == <<"Q","M","a","p","<">>
S_QMultiMapLt == <<"Q","M","u","l","t","i","M","a","p","<">>
S_QHashLt == <<"Q","H","a","s","h","<">>
S_QMultiHashLt == <<"Q","M","u","l","t","i","H","a","s","h","<">>
S_QDate == <<"Q","D","a","t","e">>
S_QTime == <<"Q","T","i","m","e">>
S_QDateTime == <<"Q","D","a","t","e","T","i","m","e">>
S_QUrl == <<"Q","U","r","l">>
S_QSetLt == <<"Q","S","e","t","<">>
S_QChar == <<"Q","C","h","a","r">>

S_int == <<"i","n","t",">">>
S_intint == <<"i","n","t",","," ","i","n","t",">">>

\* A compiled pattern: an optional ^, a literal, and what follows the literal:
\* "$" (end of string), "" (nothing) or ".*>$" (any characters, then > at the end).
Pat(start, lit, rest) == [start |-> start, lit |-> lit, rest |-> rest]

\* A matcher that forgets the anchors after the literal: every pattern then
\* matches each name its literal is a prefix of
MatchAt_IgnoreRest(p, s, i) ==
    /\ i + Len(p.lit) - 1 <= Len(s)
    /\ \A k \in 1..Len(p.lit) : s[i + k - 1] = p.lit[k]

\* Whether the literal of p stands at position i of s and the rest of p matches
\* from there.  (Tag names hold no newline, so "." matches every character and
\* "$" only the end of the string.)
MatchAt(p, s, i) ==
    /\ i + Len(p.lit) - 1 <= Len(s)
    /\ \A k \in 1..Len(p.lit) : s[i + k - 1] = p.lit[k]
    /\ CASE p.rest = "$" -> i + Len(p.lit) - 1 = Len(s)
         [] p.rest = ""  -> TRUE
         [] OTHER        -> Len(s) >= i + Len(p.lit) /\ s[Len(s)] = ">"

\* function.search(typename): a match anywhere, or at the start under ^
search(p, s) ==
    IF p.start THEN MatchAt(p, s, 1)
    ELSE \E i \in 1..(Len(s) + 1) : MatchAt(p, s, i)

\* What one lambda of build_dictionary constructs: the class, and the container
\* and itype arguments it passes (None when the constructor takes none).
Factory(cls, container, itype) == [cls |-> cls, container |-> container, itype |-> itype]

\* The entries of pretty_printers_dict in the order build_dictionary inserts them
build_dictionary ==
    << [pat |-> Pat(TRUE, S_QString, "$"),         f |-> Factory("QStringPrinter", None, NoneT)],
       [pat |-> Pat(TRUE, S_QByteArray, "$"),      f |-> Factory("QByteArrayPrinter", None, NoneT)],
       [pat |-> Pat(TRUE, S_QListLt, ".*>$"),      f |-> Factory("QListPrinter", "QList", NoneT)],
       [pat |-> Pat(TRUE, S_QStringList, "$"),     f |-> Factory("QListPrinter", "QStringList", <<"QString">>)],
       [pat |-> Pat(TRUE, S_QQueue, ""),           f |-> Factory("QListPrinter", "QQueue", NoneT)],
       [pat |-> Pat(TRUE, S_QVectorLt, ".*>$"),    f |-> Factory("QVectorPrinter", "QVector", NoneT)],
       [pat |-> Pat(TRUE, S_QStackLt, ".*>$"),     f |-> Factory("QVectorPrinter", "QStack", NoneT)],
       [pat |-> Pat(TRUE, S_QLinkedListLt, ".*>$"), f |-> Factory("QLinkedListPrinter", None, NoneT)],
       [pat |-> Pat(TRUE, S_QMapLt, ".*>$"),       f |-> Factory("QMapPrinter", "QMap", NoneT)],
       [pat |-> Pat(TRUE, S_QMultiMapLt, ".*>$"),  f |-> Factory("QMapPrinter", "QMultiMap", NoneT)],
       [pat |-> Pat(TRUE, S_QHashLt, ".*>$"),      f |-> Factory("QHashPrinter", "QHash", NoneT)],
       [pat |-> Pat(TRUE, S_QMultiHashLt, ".*>$"), f |-> Factory("QHashPrinter", "QMultiHash", NoneT)],
       [pat |-> Pat(TRUE, S_QDate, "$"),           f |-> Factory("QDatePrinter", None, NoneT)],
       [pat |-> Pat(TRUE, S_QTime, "$"),           f |-> Factory("QTimePrinter", None, NoneT)],
       [pat |-> Pat(TRUE, S_QDateTime, "$"),       f |-> Factory("QDateTimePrinter", None, NoneT)],
       [pat |-> Pat(TRUE, S_QUrl, "$"),            f |-> Factory("QUrlPrinter", None, NoneT)],
       [pat |-> Pat(TRUE, S_QSetLt, ".*>$"),       f |-> Factory("QSetPrinter", None, NoneT)],
       [pat |-> Pat(TRUE, S_QChar, "$"),           f |-> Factory("QCharPrinter", None, NoneT)] >>

pretty_printers_dict == build_dictionary

NEntries == Len(pretty_printers_dict)


-----------------------------------------------------------------------------
(* The host's type system, as far as the program queries it.  A type is a   *)
(* stack of layers ("ref", "const", "typedef", "ptr") over a tagged type.   *)

TypeCode(t) == IF t.layers = <<>> THEN "struct" ELSE Head(t.layers)

\* type.target()
Target(t) == [t EXCEPT !.layers = Tail(@)]

RECURSIVE StripLeading(_, _)
StripLeading(layers, what) ==
    IF layers # <<>> /\ Head(layers) \in what THEN StripLeading(Tail(layers), what)
    ELSE layers

\* type.unqualified(): the top-level qualifiers are dropped
unqualified(t) == [t EXCEPT !.layers = StripLeading(@, {"const"})]

\* type.strip_typedefs(): the typedefs are followed down to the first type that
\* is none, through the qualifiers on the way
strip_typedefs(t) ==
    IF t.layers # <<>> /\ Head(t.layers) = "typedef"
    THEN [t EXCEPT !.layers = StripLeading(@, {"typedef", "const"})]
    ELSE t

\* type.tag: only a struct/class type (qualified or not) has one
TypeTag(t) ==
    IF \A i \in 1..Len(t.layers) : t.layers[i] = "const" THEN t.tag ELSE TagNone

\* val.type.template_argument(i) raises when the host cannot read it
TemplateArgFails(m, i) == m.tmplFails \/ i + 1 > Len(m.targs)
TemplateArg(m, i) == m.targs[i + 1]

\* A type name is a sequence of parts, as the '%s' formats of the program build it
IsAnon(name) == \E i \in 1..Len(name) : name[i] = "(anonymous namespace)::Foo"

\* lookupType(typestring) as the host alone answers it: the type (written as
\* its name), or None when the name holds "(anon" or the host's parse_and_eval
\* raises.  The handlers are given the host as seen through the cache (HostView).
lookupType(m, name) ==
    IF name = <<"void">> THEN name
    ELSE IF IsAnon(name) THEN NoneT
    ELSE IF name \in m.unres THEN NoneT
    ELSE name

\* ---- the type cache

\* typeCache = {}
NoCache == [n \in {} |-> NoneT]

\* typeCache.get(typestring): None when there is no entry
CacheGet(cache, name) == IF name \in DOMAIN cache THEN cache[name] ELSE NoneT

\* typeCache[typestring] = type
CachePut(cache, name, t) ==
    [n \in DOMAIN cache \cup {name} |-> IF n = name THEN t ELSE cache[n]]

\* A lookupType that stores the type under the name before the host has
\* answered, and keeps the entry when the host's parse_and_eval raises
lookupTypeCall_CacheFailure(cache, m, name) ==
    IF CacheGet(cache, name) # NoneT THEN [ret |-> CacheGet(cache, name), cache |-> cache]
    ELSE IF name = <<"void">> THEN [ret |-> name, cache |-> CachePut(cache, name, name)]
    ELSE IF IsAnon(name) THEN [ret |-> NoneT, cache |-> CachePut(cache, name, NoneT)]
    ELSE IF name \in m.unres THEN [ret |-> NoneT, cache |-> CachePut(cache, name, name)]
    ELSE [ret |-> name, cache |-> CachePut(cache, name, name)]

\* lookupType(typestring) with the cache: what it returns and the cache it
\* leaves.  An entry that is None is not returned but computed again; a name
\* the host cannot parse is left without an entry ("except: pass").
lookupTypeCall(cache, m, name) ==
    IF CacheGet(cache, name) # NoneT THEN [ret |-> CacheGet(cache, name), cache |-> cache]
    ELSE IF name = <<"void">> THEN [ret |-> name, cache |-> CachePut(cache, name, name)]
    ELSE IF IsAnon(name) THEN [ret |-> NoneT, cache |-> CachePut(cache, name, NoneT)]
    ELSE IF name \in m.unres THEN [ret |-> NoneT, cache |-> cache]
    ELSE [ret |-> name, cache |-> CachePut(cache, name, name)]

\* The cache after lookupType was called with each of the names
RECURSIVE CacheAfter(_, _, _)
CacheAfter(cache, m, names) ==
    IF names = {} THEN cache
    ELSE LET n == CHOOSE x \in names : TRUE
         IN CacheAfter(lookupTypeCall(cache, m, n).cache, m, names \ {n})

\* The host as the program sees it through the cache: a name with an entry that
\* is not None is answered from the cache, whatever the host would say
HostView(cache, m) ==
    [m EXCEPT !.unres = {n \in @ : lookupTypeCall(cache, m, n).ret = NoneT}]

\* The names passed to lookupType by a piece of code that looks them up in this
\* order and uses each result at once (.pointer(), .sizeof): the first None
\* raises, and the names after it are not looked up
RECURSIVE Reached(_, _)
Reached(m, names) ==
    IF names = <<>> THEN {}
    ELSE IF lookupType(m, Head(names)) = NoneT THEN {Head(names)}
    ELSE {Head(names)} \cup Reached(m, Tail(names))

\* str(type)
Str(t) == t

-----------------------------------------------------------------------------
(* The decoder objects.  val is "val" (the handle) or None. *)

UnsetT == <<"unset">>

Obj(cls, val, container, itype, qvariant, d) ==
    [cls |-> cls, val |-> val, container |-> container, itype |-> itype,
     qvariant |-> qvariant, d |-> d]

NoPrinter == Obj(None, None, None, NoneT, "unset", "unset")

\* QStringPrinter, QByteArrayPrinter, QDatePrinter, QTimePrinter, QDateTimePrinter,
\* QUrlPrinter, QSetPrinter, QCharPrinter: __init__ stores val
Plain_init(cls) == Obj(cls, "val", "unset", UnsetT, "unset", "unset")

\* QListPrinter.__init__(val, container, itype)
QListPrinter_init(m, container, itype) ==
    IF itype = NoneT /\ TemplateArgFails(m, 0)
    THEN \* the outer except: qvariant is never assigned
         Obj("QListPrinter", None, None, NoneT, "unset", "unset")
    ELSE LET ty == IF itype = NoneT THEN TemplateArg(m, 0) ELSE lookupType(m, itype)
             qv == Str(ty) = Str(lookupType(m, <<"QVariant">>))
         IN Obj("QListPrinter", IF qv THEN None ELSE "val", container, ty,
                IF qv THEN "True" ELSE "False", "unset")

\* QVectorPrinter.__init__(val, container): the except branch assigns self.d,
\* not self.val, so val stays the handle
QVectorPrinter_init(m, container) ==
    IF TemplateArgFails(m, 0)
    THEN Obj("QVectorPrinter", "val", None, NoneT, "unset", None)
    ELSE Obj("QVectorPrinter", "val", container, TemplateArg(m, 0), "unset", "unset")

\* QLinkedListPrinter.__init__(val)
QLinkedListPrinter_init(m) ==
    IF TemplateArgFails(m, 0)
    THEN Obj("QLinkedListPrinter", None, "unset", NoneT, "unset", "unset")
    ELSE Obj("QLinkedListPrinter", "val", "unset", TemplateArg(m, 0), "unset", "unset")

\* QMapPrinter.__init__ and QHashPrinter.__init__(val, container)
MapLike_init(cls, m, container) ==
    LET qv == /\ ~TemplateArgFails(m, 1)
              /\ Str(TemplateArg(m, 1)) = Str(lookupType(m, <<"QVariant">>))
    IN Obj(cls, IF qv THEN None ELSE "val", container, UnsetT,
           IF qv THEN "True" ELSE "False", "unset")

\* pretty_printers_dict[function](val)
Construct(f, m) ==
    CASE f.cls = "QListPrinter"       -> QListPrinter_init(m, f.container, f.itype)
      [] f.cls = "QVectorPrinter"     -> QVectorPrinter_init(m, f.container)
      [] f.cls = "QLinkedListPrinter" -> QLinkedListPrinter_init(m)
      [] f.cls \in {"QMapPrinter", "QHashPrinter"} -> MapLike_init(f.cls, m, f.container)
      [] OTHER                        -> Plain_init(f.cls)

\* "for function in pretty_printers_dict": a Python 2 dict iterates in an order
\* of its own, which differs from process to process and can be any.  The loop
\* passes over the entries whose pattern does not match wherever they stand, so
\* an order is kept as the sequence of the matching entries in it: every
\* arrangement of the entries that match the name of the type of vt
IterationOrders(vt) ==
    LET t1 == IF TypeCode(vt) = "ref" THEN Target(vt) ELSE vt
        typename == TypeTag(strip_typedefs(unqualified(t1)))
        hits == IF vt.fails \/ typename = TagNone THEN {}
                ELSE {k \in 1..NEntries : search(pretty_printers_dict[k].pat, typename)}
    IN {o \in [1..Cardinality(hits) -> hits] :
           \A i \in DOMAIN o : \A j \in DOMAIN o : i # j => o[i] # o[j]}

\* The loop of lookup_function: the entries are visited in the dict's iteration
\* order, the first whose pattern matches builds the decoder.  0 when none matches.
RECURSIVE FirstMatch(_, _, _)
FirstMatch(order, typename, i) ==
    IF i > Len(order) THEN 0
    ELSE IF search(pretty_printers_dict[order[i]].pat, typename) THEN order[i]
    ELSE FirstMatch(order, typename, i + 1)

lookup_function(vt, m, order) ==
    IF vt.fails THEN Raise("RuntimeError", NoPrinter)
    ELSE LET t1 == IF TypeCode(vt) = "ref" THEN Target(vt) ELSE vt
             t2 == strip_typedefs(unqualified(t1))
             typename == TypeTag(t2)
             k == FirstMatch(order, typename, 1)
         IN IF typename = TagNone THEN Ret(NoPrinter)
            ELSE IF k = 0 THEN Ret(NoPrinter)
            ELSE Ret(Construct(pretty_printers_dict[k].f, m))

-----------------------------------------------------------------------------
(* The gates *)

\* Reading header field f of val['d'] raises (gdb.error, a RuntimeError)
HdrBad(m, f) == f \in m.badHdr

\* object.val['d'][...]: TypeError when object.val is None
ValExc(p) == IF p.val = "val" THEN "" ELSE "TypeError"

isReferenceCorrect(p, m) ==
    IF ValExc(p) # "" THEN Raise(ValExc(p), FALSE)
    ELSE IF HdrBad(m, "ref") THEN Raise("RuntimeError", FALSE)
    ELSE IF m.ref < 0 \/ m.ref > REF_LIMIT THEN Ret(FALSE)
    ELSE Ret(TRUE)

isSizeCorrect(p, m) ==
    IF ValExc(p) # "" THEN Raise(ValExc(p), FALSE)
    ELSE IF HdrBad(m, "size") THEN Raise("RuntimeError", FALSE)
    ELSE IF m.size < 0 \/ m.size > SIZE_LIMIT THEN Ret(FALSE)
    ELSE Ret(TRUE)

-----------------------------------------------------------------------------
(* to_string.  A summary is a sequence of tokens: a fixed message is one    *)
(* token, a formatted summary the sequence of its parts.                    *)

NotInitializedDot == <<"Not initialized.">>
NotInitialized == <<"Not initialized">>
TooLarge == <<"Not initialized or size too large to display">>
ArrayTooLarge == <<"Array not initialized yet or too large to display">>
QVariantMsg == <<"QVariant types printing not supported">>

Empty(b) == IF b THEN "empty " ELSE ""

\* ---- the text of a QString: UTF-16 code units in memory, UTF-8 on display

\* The code unit of a character of the debuggee's string
CodeOf(c) ==
    CASE c = "a" -> 97 [] c = "b" -> 98 [] c = "c" -> 99 [] c = "d" -> 100
      [] c = "e'" -> 233

\* The bytes at d.data: two per code unit, the low byte first
DataBytes(m) ==
    [k \in 1..(2 * Len(m.text)) |->
        IF k % 2 = 1 THEN CodeOf(m.text[(k + 1) \div 2]) % 256
        ELSE CodeOf(m.text[k \div 2]) \div 256]

\* A decoder that takes every byte for a character
Latin1Decode(bytes) == bytes

\* .string(encoding = 'UTF-16', errors = 'ignore'): the code points of the byte
\* pairs; a trailing odd byte is ignored
Utf16Decode(bytes) ==
    [k \in 1..(Len(bytes) \div 2) |-> bytes[2 * k - 1] + (256 * bytes[2 * k])]

\* The UTF-8 bytes of one code point below 0x10000
Utf8Bytes(cp) ==
    IF cp < 128 THEN <<cp>>
    ELSE IF cp < 2048 THEN <<192 + (cp \div 64), 128 + (cp % 64)>>
    ELSE <<224 + (cp \div 4096), 128 + ((cp \div 64) % 64), 128 + (cp % 64)>>

\* .encode('utf-8'): the bytes of the code points, one after the other
RECURSIVE Utf8Encode(_)
Utf8Encode(cps) ==
    IF cps = <<>> THEN <<>>
    ELSE IF Len(cps) = 1 THEN Utf8Bytes(cps[1])
    ELSE LET h == Len(cps) \div 2
         IN Utf8Encode(SubSeq(cps, 1, h)) \o Utf8Encode(SubSeq(cps, h + 1, Len(cps)))

\* The 256 bytes as they are written here, each one token: a printable ASCII
\* byte as its character, every other byte (and the grave accent) as the
\* escape \xNN
ByteNames ==
    <<
       "\\x00", "\\x01", "\\x02", "\\x03", "\\x04", "\\x05", "\\x06", "\\x07",
       "\\x08", "\\x09", "\\x0a", "\\x0b", "\\x0c", "\\x0d", "\\x0e", "\\x0f",
       "\\x10", "\\x11", "\\x12", "\\x13", "\\x14", "\\x15", "\\x16", "\\x17",
       "\\x18", "\\x19", "\\x1a", "\\x1b", "\\x1c", "\\x1d", "\\x1e", "\\x1f",
       " ", "!", "\"", "#", "$", "%", "&", "'",
       "(", ")", "*", "+", ",", "-", ".", "/",
       "0", "1", "2", "3", "4", "5", "6", "7",
       "8", "9", ":", ";", "<", "=", ">", "?",
       "@", "A", "B", "C", "D", "E", "F", "G",
       "H", "I", "J", "K", "L", "M", "N", "O",
       "P", "Q", "R", "S", "T", "U", "V", "W",
       "X", "Y", "Z", "[", "\\", "]", "^", "_",
       "\\x60", "a", "b", "c", "d", "e", "f", "g",
       "h", "i", "j", "k", "l", "m", "n", "o",
       "p", "q", "r", "s", "t", "u", "v", "w",
       "x", "y", "z", "{", "|", "}", "~", "\\x7f",
       "\\x80", "\\x81", "\\x82", "\\x83", "\\x84", "\\x85", "\\x86", "\\x87",
       "\\x88", "\\x89", "\\x8a", "\\x8b", "\\x8c", "\\x8d", "\\x8e", "\\x8f",
       "\\x90", "\\x91", "\\x92", "\\x93", "\\x94", "\\x95", "\\x96", "\\x97",
       "\\x98", "\\x99", "\\x9a", "\\x9b", "\\x9c", "\\x9d", "\\x9e", "\\x9f",
       "\\xa0", "\\xa1", "\\xa2", "\\xa3", "\\xa4", "\\xa5", "\\xa6", "\\xa7",
       "\\xa8", "\\xa9", "\\xaa", "\\xab", "\\xac", "\\xad", "\\xae", "\\xaf",
       "\\xb0", "\\xb1", "\\xb2", "\\xb3", "\\xb4", "\\xb5", "\\xb6", "\\xb7",
       "\\xb8", "\\xb9", "\\xba", "\\xbb", "\\xbc", "\\xbd", "\\xbe", "\\xbf",
       "\\xc0", "\\xc1", "\\xc2", "\\xc3", "\\xc4", "\\xc5", "\\xc6", "\\xc7",
       "\\xc8", "\\xc9", "\\xca", "\\xcb", "\\xcc", "\\xcd", "\\xce", "\\xcf",
       "\\xd0", "\\xd1", "\\xd2", "\\xd3", "\\xd4", "\\xd5", "\\xd6", "\\xd7",
       "\\xd8", "\\xd9", "\\xda", "\\xdb", "\\xdc", "\\xdd", "\\xde", "\\xdf",
       "\\xe0", "\\xe1", "\\xe2", "\\xe3", "\\xe4", "\\xe5", "\\xe6", "\\xe7",
       "\\xe8", "\\xe9", "\\xea", "\\xeb", "\\xec", "\\xed", "\\xee", "\\xef",
       "\\xf0", "\\xf1", "\\xf2", "\\xf3", "\\xf4", "\\xf5", "\\xf6", "\\xf7",
       "\\xf8", "\\xf9", "\\xfa", "\\xfb", "\\xfc", "\\xfd", "\\xfe", "\\xff"
    >>

\* One byte of the Python 2 str, as it is written here
ByteChar(b) == ByteNames[b + 1]

\* data.cast(char*).string(encoding = 'UTF-16', errors = 'ignore',
\* length = n).encode('utf-8')
StringOf(m, n) ==
    LET out == Utf8Encode(Utf16Decode(SubSeq(DataBytes(m), 1, n)))
    IN [k \in 1..Len(out) |-> ByteChar(out[k])]

\* QStringPrinter.to_string.  The branch for size > SIZE_LIMIT names maxSize,
\* which is defined nowhere: it raises NameError, caught by the bare except.
QStringPrinter_to_string(p, m) ==
    IF HdrBad(m, "ref") THEN Ret(NotInitializedDot)
    ELSE IF m.ref > 0 /\ m.ref < REF_LIMIT
    THEN IF HdrBad(m, "size") THEN Ret(NotInitializedDot)
         ELSE IF m.size < 0 THEN Ret(<<"not initialized.">>)
         ELSE IF m.size = 0 THEN Ret(<<"\"", "\"">>)
         ELSE IF HdrBad(m, "data") THEN Ret(NotInitializedDot)
         ELSE IF m.size > SIZE_LIMIT THEN Ret(NotInitializedDot)
         ELSE IF lookupType(m, <<"char">>) = NoneT THEN Ret(NotInitializedDot)
         ELSE IF m.size > Len(m.text) THEN Ret(NotInitializedDot)
         ELSE Ret(<<"\"">> \o StringOf(m, m.size * 2) \o <<"\"">>)
    ELSE Ret(NotInitializedDot)

\* QByteArrayPrinter.to_string: only the size is checked
QByteArrayPrinter_to_string(p, m) ==
    LET sz == isSizeCorrect(p, m)
    IN IF sz.exc # "" THEN Ret(NotInitializedDot)
       ELSE IF sz.v = FALSE
       THEN Ret(ArrayTooLarge)
       ELSE IF HdrBad(m, "data") THEN Ret(NotInitializedDot)
       ELSE Ret(m.text)

\* QListPrinter.to_string: self.qvariant is read before any try
QListPrinter_to_string(p, m) ==
    IF p.qvariant = "unset" THEN Raise("AttributeError", <<>>)
    ELSE IF p.qvariant = "True" THEN Ret(QVariantMsg)
    ELSE IF p.val = None THEN Ret(NotInitialized)
    ELSE LET rf == isReferenceCorrect(p, m)
         IN IF rf.exc # "" THEN Ret(NotInitialized)
            ELSE IF rf.v = FALSE THEN Ret(NotInitialized)
            ELSE IF HdrBad(m, "end") \/ HdrBad(m, "begin") THEN Ret(NotInitialized)
            ELSE IF m.end - m.begin > 512 THEN Ret(TooLarge)
            ELSE Ret(<<Empty(m.end = m.begin), p.container, "<">> \o Str(p.itype) \o <<">">>)

\* The two gates as QVector, QLinkedList, QMap and QHash apply them in to_string:
\* <<>> when both pass, else the message to return
GateMessage(p, m) ==
    LET rf == isReferenceCorrect(p, m)
        sz == isSizeCorrect(p, m)
    IN IF rf.exc # "" THEN NotInitialized
       ELSE IF rf.v = FALSE THEN NotInitialized
       ELSE IF sz.exc # "" THEN NotInitialized
       ELSE IF sz.v = FALSE THEN TooLarge
       ELSE <<>>

QVectorPrinter_to_string(p, m) ==
    IF p.val = None THEN Ret(NotInitialized)
    ELSE IF GateMessage(p, m) # <<>> THEN Ret(GateMessage(p, m))
    ELSE Ret(<<Empty(m.size = 0), p.container, "<">> \o Str(p.itype) \o <<">">>)

QLinkedListPrinter_to_string(p, m) ==
    IF p.val = None THEN Ret(NotInitialized)
    ELSE IF GateMessage(p, m) # <<>> THEN Ret(GateMessage(p, m))
    ELSE Ret(<<Empty(m.size = 0), "QLinkedList<">> \o Str(p.itype) \o <<">">>)

\* QMapPrinter.to_string and QHashPrinter.to_string
MapLike_to_string(p, m) ==
    IF p.qvariant = "unset" THEN Raise("AttributeError", <<>>)
    ELSE IF p.qvariant = "True" THEN Ret(QVariantMsg)
    ELSE IF p.val = None THEN Ret(NotInitialized)
    ELSE IF GateMessage(p, m) # <<>> THEN Ret(GateMessage(p, m))
    ELSE IF TemplateArgFails(m, 0) \/ TemplateArgFails(m, 1) THEN Ret(NotInitialized)
    ELSE Ret(<<Empty(m.size = 0), p.container, "<">> \o Str(TemplateArg(m, 0))
             \o <<", ">> \o Str(TemplateArg(m, 1)) \o <<">">>)

\* QSetPrinter.to_string: its own reference test, and only the upper size test
QSetPrinter_to_string(p, m) ==
    IF p.val = None THEN Ret(NotInitialized)
    ELSE IF HdrBad(m, "q_hash") \/ HdrBad(m, "ref") THEN Ret(NotInitialized)
    ELSE IF m.ref < 0 \/ m.ref > REF_LIMIT THEN Ret(NotInitialized)
    ELSE IF HdrBad(m, "size") THEN Ret(NotInitialized)
    ELSE IF m.size > SIZE_LIMIT THEN Ret(TooLarge)
    ELSE IF TemplateArgFails(m, 0) THEN Ret(NotInitialized)
    ELSE Ret(<<Empty(m.size = 0), "QSet<">> \o Str(TemplateArg(m, 0)) \o <<">">>)

\* QDateTimePrinter.to_string: the date and the time are gdb values, which
\* "%s %s" leaves to the host to render
QDateTimePrinter_to_string(p, m) ==
    IF lookupType(m, <<"char">>) = NoneT \/ lookupType(m, <<"QAtomicInt">>) = NoneT
    THEN Ret(NotInitialized)
    ELSE IF HdrBad(m, "ref") THEN Ret(NotInitialized)
    ELSE IF m.ref < 0 \/ m.ref > REF_LIMIT THEN Ret(NotInitialized)
    ELSE IF lookupType(m, <<"int">>) = NoneT \/ lookupType(m, <<"QDate">>) = NoneT
            \/ lookupType(m, <<"QTime">>) = NoneT
    THEN Ret(NotInitialized)
    ELSE Ret(<<"<QDate at d+sizeof(int)>", " ", "<QTime at d+sizeof(int)+sizeof(QDate)>">>)

\* The except RuntimeError branch of QUrlPrinter.to_string: the address of
\* encodedOriginal is guessed from the sizes of the fields before it; the
\* reference count is not looked at
QUrlPrinter_fallback(p, m) ==
    IF \E n \in {<<"int">>, <<"QString">>, <<"QByteArray">>, <<"char">>} :
           lookupType(m, n) = NoneT
    THEN Ret(NotInitialized)
    ELSE IF HdrBad(m, "data") THEN Ret(NotInitialized)
    ELSE Ret(m.text)

\* QUrlPrinter.to_string.  Without debug information for QUrlPrivate the field
\* access val['d']['ref'] raises gdb.error, a RuntimeError.
QUrlPrinter_to_string(p, m) ==
    IF m.noDebug THEN QUrlPrinter_fallback(p, m)
    ELSE LET rf == isReferenceCorrect(p, m)
         IN IF rf.exc = "RuntimeError" THEN QUrlPrinter_fallback(p, m)
            ELSE IF rf.exc # "" THEN Ret(NotInitialized)
            ELSE IF rf.v = FALSE THEN Ret(NotInitialized)
            ELSE IF HdrBad(m, "encodedOriginal") THEN QUrlPrinter_fallback(p, m)
            ELSE Ret(<<"<QByteArray d.encodedOriginal>">>)

\* ---- QDate and QTime

\* '%d' % n: the decimal digits of n (n >= 0)
DigitChar(k) ==
    CASE k = 0 -> "0" [] k = 1 -> "1" [] k = 2 -> "2" [] k = 3 -> "3" [] k = 4 -> "4"
      [] k = 5 -> "5" [] k = 6 -> "6" [] k = 7 -> "7" [] k = 8 -> "8" [] k = 9 -> "9"

RECURSIVE Digits(_)
Digits(n) == IF n < 10 THEN <<DigitChar(n)>> ELSE Append(Digits(n \div 10), DigitChar(n % 10))

RECURSIVE ZeroFill(_, _)
ZeroFill(ds, w) == IF Len(ds) >= w THEN ds ELSE ZeroFill(<<"0">> \o ds, w)

\* '%0wd' % n (w = 0 for a plain '%d'): the sign counts for the width
Format(n, w) ==
    IF n < 0 THEN <<"-">> \o ZeroFill(Digits(-n), w - 1) ELSE ZeroFill(Digits(n), w)

InvalidDate == <<"Uninitialized or invalid QDate">>
InvalidTime == <<"Uninitialized or invalid QTime">>

\* val['jd'], an unsigned 32-bit field kept as its two 16-bit halves; as one
\* integer when it is below 2^31
JulianDay(m) == (m.jd.hi * 65536) + m.jd.lo

\* A cutover one day late
IsGregorian_Late(m) == m.jd.hi > 35 \/ (m.jd.hi = 35 /\ m.jd.lo >= 5402)

\* n modulo 2^32 as the halves of an unsigned 32-bit value, for n from -65536
\* to 2^31 - 1
U32(n) ==
    IF n >= 0 THEN [hi |-> n \div 65536, lo |-> n % 65536]
    ELSE [hi |-> 65535, lo |-> 65536 + n]

\* gdb computes Value-with-int arithmetic in the C type of the operands:
\* unsigned int with a Python int (a 32-bit long of the target) gives an
\* unsigned 32-bit value, so +, - and * wrap around 2^32 and / is the unsigned
\* division.  The operators below work on the halves.
Wrap32(hi, lo) == [hi |-> (hi + (lo \div 65536)) % 65536, lo |-> lo % 65536]

\* a + b
Add32(a, b) == Wrap32(a.hi + b.hi, a.lo + b.lo)

\* a - b, as a + (2^32 - b)
Sub32(a, b) == Add32(a, Wrap32(65535 - b.hi, 65536 - b.lo))

\* a * k for an integer k, 0 <= k < 2^23: the low half of a is multiplied byte
\* by byte, of the other products only the low 16 bits count
Mul32(a, k) ==
    LET kh == k \div 65536
        kl == k % 65536
        p0 == (a.lo % 256) * kl
        p1 == (a.lo \div 256) * kl
        x == ((a.hi % 256) * kl) + ((((a.hi \div 256) * kl) % 256) * 256)
    IN Wrap32((p1 \div 256) + (a.lo * kh) + (x % 65536), p0 + ((p1 % 256) * 256))

\* a / k for an integer k, 0 < k < 2^23: the long division of the four bytes
Div32(a, k) ==
    LET t3 == a.hi \div 256
        t2 == ((t3 % k) * 256) + (a.hi % 256)
        t1 == ((t2 % k) * 256) + (a.lo \div 256)
        t0 == ((t1 % k) * 256) + (a.lo % 256)
    IN [hi |-> ((t3 \div k) * 256) + (t2 \div k), lo |-> ((t1 \div k) * 256) + (t0 \div k)]

\* '%d' % v for an unsigned 32-bit value
RECURSIVE Digits32(_)
Digits32(v) ==
    IF v.hi = 0 THEN Digits(v.lo)
    ELSE LET low == ((v.hi % 10) * 65536) + v.lo
         IN Append(Digits32([hi |-> v.hi \div 10, lo |-> low \div 10]), DigitChar(low % 10))

\* julianDay >= 2299161 (2299161 = 35 * 65536 + 5401)
IsGregorian(m) == m.jd.hi > 35 \/ (m.jd.hi = 35 /\ m.jd.lo >= 5401)

\* The Gregorian branch.  4 * ell wraps from the day number 2^30 - 68569 on,
\* julianDay + 68569 from 2^32 - 68569 on
GregorianDate(julianDay) ==
    LET ell1 == Add32(julianDay, U32(68569))
        n == Div32(Mul32(ell1, 4), 146097)
        ell2 == Sub32(ell1, Div32(Add32(Mul32(n, 146097), U32(3)), 4))
        i == Div32(Mul32(Add32(ell2, U32(1)), 4000), 1461001)
        ell3 == Add32(Sub32(ell2, Div32(Mul32(i, 1461), 4)), U32(31))
        j == Div32(Mul32(ell3, 80), 2447)
        d == Sub32(ell3, Div32(Mul32(j, 2447), 80))
        ell4 == Div32(j, 11)
        m == Sub32(Add32(j, U32(2)), Mul32(ell4, 12))
        y == Add32(Add32(Mul32(Sub32(n, U32(49)), 100), i), ell4)
    IN [y |-> y, m |-> m, d |-> d]

\* The Julian branch in the integers, as a decrement of the year would have
\* it; jd is the day number as one integer
JulianDate_StepDown(jd) ==
    LET julianDay == jd + 32082
        dd == ((4 * julianDay) + 3) \div 1461
        ee == julianDay - ((1461 * dd) \div 4)
        mm == ((5 * ee) + 2) \div 153
        y == (dd - 4800) + (mm \div 10)
    IN [y |-> IF y <= 0 THEN y - 1 ELSE y,
        m |-> (mm + 3) - (12 * (mm \div 10)),
        d |-> (ee - (((153 * mm) + 2) \div 5)) + 1]

\* The Julian branch.  The year is unsigned like the day number it is computed
\* from: before the year 1, dd - 4800 wraps around 2^32, and "y <= 0" holds for
\* y = 0 alone.  "--y" is the unary minus applied twice, an expression
\* statement: y is left as it is
JulianDate(jd) ==
    LET julianDay == Add32(jd, U32(32082))
        dd == Div32(Add32(Mul32(julianDay, 4), U32(3)), 1461)
        ee == Sub32(julianDay, Div32(Mul32(dd, 1461), 4))
        mm == Div32(Add32(Mul32(ee, 5), U32(2)), 153)
        d == Add32(Sub32(ee, Div32(Add32(Mul32(mm, 153), U32(2)), 5)), U32(1))
        m == Sub32(Add32(mm, U32(3)), Mul32(Div32(mm, 10), 12))
        y == Add32(Sub32(dd, U32(4800)), Div32(mm, 10))
    IN [y |-> y, m |-> m, d |-> d]

\* QDatePrinter.to_string.  y, m and d are unsigned 32-bit values, printed by
\* "%d-%02d-%02d"
QDatePrinter_to_string(p, m) ==
    IF HdrBad(m, "jd") THEN Ret(NotInitialized)
    ELSE IF (m.jd.hi = 0 /\ m.jd.lo = 0) \/ (m.jd.hi = 65535 /\ m.jd.lo = 65535)
    THEN Ret(InvalidDate)
    ELSE LET r == IF IsGregorian(m) THEN GregorianDate(m.jd) ELSE JulianDate(m.jd)
         IN Ret(Digits32(r.y) \o <<"-">> \o ZeroFill(Digits32(r.m), 2)
                \o <<"-">> \o ZeroFill(Digits32(r.d), 2))

\* ds / k and ds % k for k > 0: the quotient rounds towards zero on a host whose
\* integers divide as C does, down on one whose integers divide as Python does
Quot(m, a, k) ==
    IF a >= 0 \/ ~m.truncDiv THEN a \div k ELSE -((-a) \div k)
Rem(m, a, k) == a - (k * Quot(m, a, k))

\* A validity test that rejects every value outside 0..86400000
TimeRejected_Range(ds) == ds < 0 \/ ds > 86400000

\* ds == -1 or ds > 86400000
TimeRejected(ds) == ds = -1 \/ ds > 86400000

\* QTimePrinter.to_string
QTimePrinter_to_string(p, m) ==
    IF HdrBad(m, "mds") THEN Ret(NotInitialized)
    ELSE IF TimeRejected(m.mds) THEN Ret(InvalidTime)
    ELSE LET ds == m.mds
             hour == Quot(m, ds, 3600000)
             minute == Quot(m, Rem(m, ds, 3600000), 60000)
             second == Rem(m, Quot(m, ds, 1000), 60)
             msec == Rem(m, ds, 1000)
         IN Ret(Format(hour, 2) \o <<":">> \o Format(minute, 2) \o <<":">>
                \o Format(second, 2) \o <<".">> \o Format(msec, 3))

\* QCharPrinter.to_string: unichr(val['ucs']).encode('utf-8'); ucs is an
\* unsigned 16-bit field
QCharPrinter_to_string(p, m) ==
    IF HdrBad(m, "ucs") THEN Ret(NotInitialized)
    ELSE LET out == Utf8Bytes(m.ucs)
         IN Ret([k \in 1..Len(out) |-> ByteChar(out[k])])

\* The decoders of plain values
ValueClasses == {"QDatePrinter", "QTimePrinter", "QCharPrinter"}

\* The classes whose to_string is modelled
SummaryClasses ==
    {"QStringPrinter", "QByteArrayPrinter", "QListPrinter", "QVectorPrinter",
     "QLinkedListPrinter", "QMapPrinter", "QHashPrinter", "QSetPrinter",
     "QDateTimePrinter", "QUrlPrinter"}

to_string(p, m) ==
    CASE p.cls = "QStringPrinter"     -> QStringPrinter_to_string(p, m)
      [] p.cls = "QByteArrayPrinter"  -> QByteArrayPrinter_to_string(p, m)
      [] p.cls = "QListPrinter"       -> QListPrinter_to_string(p, m)
      [] p.cls = "QVectorPrinter"     -> QVectorPrinter_to_string(p, m)
      [] p.cls = "QLinkedListPrinter" -> QLinkedListPrinter_to_string(p, m)
      [] p.cls \in {"QMapPrinter", "QHashPrinter"} -> MapLike_to_string(p, m)
      [] p.cls = "QSetPrinter"        -> QSetPrinter_to_string(p, m)
      [] p.cls = "QDateTimePrinter"   -> QDateTimePrinter_to_string(p, m)
      [] p.cls = "QUrlPrinter"        -> QUrlPrinter_to_string(p, m)
      [] p.cls = "QDatePrinter"       -> QDatePrinter_to_string(p, m)
      [] p.cls = "QTimePrinter"       -> QTimePrinter_to_string(p, m)
      [] p.cls = "QCharPrinter"       -> QCharPrinter_to_string(p, m)

-----------------------------------------------------------------------------
(* Iterators.  One record shape serves every _iterator class:               *)
(*   alive    the object the iterator walks (data, d, val, hashIterator) is *)
(*            not None                                                      *)
(*   size     self.size                                                     *)
(*   count    self.count (self.pos of QLinkedList); Unset when never set    *)
(*   node     self.data_node (self.it of QLinkedList): an address, NoneV    *)
(*            or Unset                                                      *)
(*   endNode  self.end_node                                                 *)
(*   nodetype self.nodetype of QList                                        *)
(* A result of next() is [label, f, at]: the number formatted into the      *)
(* label, the field read (key, value, t, v, ...) and the address or index   *)
(* it was read at.                                                          *)

Iter(cls, alive, size, count, node, endNode, nodetype) ==
    [cls |-> cls, alive |-> alive, size |-> size, count |-> count, node |-> node,
     endNode |-> endNode, nodetype |-> nodetype]

Dead(cls, size) == Iter(cls, FALSE, size, 0, Unset, Unset, NoneT)

NoIter == Iter(None, FALSE, 0, 0, Unset, Unset, NoneT)

Entry(label, f, at) == [label |-> label, f |-> f, at |-> at]

\* The empty string that QByteArrayPrinter._iterator.next returns from its except
EmptyStr == Entry(NoneV, "", NoneV)

NoEntry == Entry(NoneV, None, NoneV)

Yield(i, e) == [exc |-> "", it |-> i, out |-> e]
Stop(i) == [exc |-> "StopIteration", it |-> i, out |-> NoEntry]
Fault(i, e) == [exc |-> e, it |-> i, out |-> NoEntry]

\* data[i], array[i]: element i of the buffer can be read
ElemOk(m, i) == 0 <= i /\ i < m.arrLen

\* ---- QByteArray

QByteArrayPrinter_children(p, m) ==
    LET rf == isReferenceCorrect(p, m)
        sz == isSizeCorrect(p, m)
    IN IF rf.exc # "" THEN Dead("QByteArray", 0)
       ELSE IF rf.v = FALSE THEN Dead("QByteArray", 0)
       ELSE IF sz.exc # "" THEN Dead("QByteArray", 0)
       ELSE IF HdrBad(m, "data") THEN Dead("QByteArray", 0)
       ELSE Iter("QByteArray", TRUE, IF sz.v = FALSE THEN SIZE_LIMIT ELSE m.size,
                 0, Unset, Unset, NoneT)

QByteArray_next(i, m) ==
    IF i.count >= i.size \/ ~i.alive THEN Stop(i)
    ELSE LET j == [i EXCEPT !.count = @ + 1]
         IN IF ElemOk(m, i.count) THEN Yield(j, Entry(i.count, "data", i.count))
            ELSE Yield(j, EmptyStr)

\* ---- QList

\* What the host answers about an element type: sizeof > sizeof(void *), whether
\* it is a pointer, and its tag
TypeIsLarge(t) == t \in {<<"Big">>, <<"QVariant">>}
TypeIsPointer(t) == t = <<"int *">>
TypeTagName(t) == IF t \in {<<"int">>, <<"int *">>} THEN None ELSE t[1]

movableTypes ==
    {"QRect", "QRectF", "QString", "QMargins", "QLocale", "QChar", "QDate", "QTime",
     "QDateTime", "QVector", "QRegExpr", "QPoint", "QPointF", "QByteArray", "QSize",
     "QSizeF", "QBitArray", "QLine", "QLineF", "QModelIndex", "QPersitentModelIndex",
     "QVariant", "QFileInfo", "QUrl", "QXmlStreamAttribute",
     "QXmlStreamNamespaceDeclaration", "QXmlStreamNotationDeclaration",
     "QXmlStreamEntityDeclaration"}

primitiveTypes ==
    {"bool", "char", "signed char", "uchar", "short", "ushort", "int", "uint", "long",
     "ulong", "qint64", "qunit64", "float", "double"}

\* see QList::Node::t(): the element sits behind a pointer when it is large or static
QList_outOfLine(t) ==
    LET isStatic == IF TypeTagName(t) \in movableTypes \/ t[1] \in primitiveTypes
                    THEN FALSE ELSE ~TypeIsPointer(t)
    IN TypeIsLarge(t) \/ isStatic

QListPrinter_children(p, m) ==
    IF p.val = None THEN Dead("QList", 0)
    ELSE LET rf == isReferenceCorrect(p, m)
         IN IF rf.exc # "" THEN Dead("QList", 0)
            ELSE IF rf.v = FALSE THEN Dead("QList", 0)
            ELSE IF HdrBad(m, "end") \/ HdrBad(m, "begin") THEN Dead("QList", 0)
            ELSE IF m.end - m.begin > 512 THEN Dead("QList", 0)
            ELSE Iter("QList", TRUE, 0, 0, Unset, Unset, p.itype)

QList_next(i, m) ==
    IF ~i.alive THEN Stop(i)
    ELSE IF i.count >= m.end - m.begin THEN Stop(i)
    ELSE IF HdrBad(m, "array") \/ ~ElemOk(m, m.begin + i.count) THEN Stop(i)
    ELSE IF i.nodetype = NoneT THEN Stop(i)
    ELSE IF lookupType(m, <<"QList<">> \o i.nodetype \o <<">::Node">>) = NoneT THEN Stop(i)
    ELSE Yield([i EXCEPT !.count = @ + 1],
               Entry(i.count, IF QList_outOfLine(i.nodetype) THEN "*v" ELSE "v",
                     m.begin + i.count))

\* ---- QVector

QVectorPrinter_children(p, m) ==
    IF p.val = None THEN Dead("QVector", 0)
    ELSE IF GateMessage(p, m) # <<>> THEN Dead("QVector", 0)
    ELSE IF HdrBad(m, "p") THEN Dead("QVector", 0)
    ELSE Iter("QVector", TRUE, 0, 0, Unset, Unset, p.itype)

\* no try: a failing read leaves next() as the host's error
QVector_next(i, m) ==
    IF ~i.alive THEN Stop(i)
    ELSE IF i.count >= m.size THEN Stop(i)
    ELSE LET j == [i EXCEPT !.count = @ + 1]
         IN IF HdrBad(m, "array") \/ ~ElemOk(m, i.count) THEN Fault(j, "RuntimeError")
            ELSE Yield(j, Entry(i.count, "array", i.count))

\* ---- QLinkedList

QLinkedListPrinter_children(p, m) ==
    IF p.val = None THEN Dead("QLinkedList", 0)
    ELSE IF GateMessage(p, m) # <<>> THEN Dead("QLinkedList", 0)
    ELSE IF HdrBad(m, "e") THEN Dead("QLinkedList", 0)
    ELSE Iter("QLinkedList", TRUE, m.size, 0, m.eFwd, Unset, p.itype)

\* no try: a failing read leaves next() as the host's error
QLinkedList_next(i, m) ==
    IF i.count >= i.size THEN Stop(i)
    ELSE IF i.node \notin DOMAIN m.nodes THEN Fault(i, "RuntimeError")
    ELSE Yield([i EXCEPT !.node = m.nodes[i.node].nxt, !.count = @ + 1],
               Entry(i.count, "t", i.node))

\* ---- QMap

\* QMapPrinter._iterator.payload: sizeof(QMapNode<K, V>) less the two pointers
payload(m) == m.nodeSize - 2 * m.ptrSize

QMapNodeName(m) ==
    <<"QMapNode<">> \o TemplateArg(m, 0) \o <<", ">> \o TemplateArg(m, 1) \o <<">">>

\* QMapPrinter._iterator.concrete: the address of the QMapNode that holds the
\* QMapData::Node at data_node; NoneV when the node type or char cannot be
\* looked up
concrete(m, data_node) ==
    IF lookupType(m, QMapNodeName(m)) = NoneT \/ lookupType(m, <<"char">>) = NoneT
    THEN NoneV
    ELSE data_node - payload(m)

\* QMapPrinter._iterator.__init__, called inside the try of children()
QMap_iterator(m) ==
    IF TemplateArgFails(m, 0) \/ TemplateArgFails(m, 1) THEN Dead("QMap", 0)
    ELSE IF m.size = 0 THEN Iter("QMap", TRUE, 0, Unset, Unset, Unset, NoneT)
    ELSE IF HdrBad(m, "e") THEN Dead("QMap", 0)
    ELSE Iter("QMap", TRUE, m.size, 0, m.eFwd, Unset, NoneT)

QMapPrinter_children(p, m) ==
    IF p.val = None THEN Dead("QMap", 0)
    ELSE IF GateMessage(p, m) # <<>> THEN Dead("QMap", 0)
    ELSE QMap_iterator(m)

QMap_next(i, m) ==
    IF ~i.alive THEN Stop(i)
    ELSE IF i.size = 0 THEN Stop(i)
    ELSE IF i.node = m.eAddr THEN Stop(i)
    ELSE IF concrete(m, i.node) = NoneV THEN Stop(i)
    ELSE LET a == concrete(m, i.node)
         IN IF a \notin DOMAIN m.nodes THEN Stop(i)
            ELSE IF i.count % 2 = 0
            THEN Yield([i EXCEPT !.count = @ + 1], Entry(i.count, "key", a))
            ELSE Yield([i EXCEPT !.count = @ + 1, !.node = m.nodes[a].nxt],
                       Entry(i.count, "value", a))

\* ---- QHash

\* The bucket scan of firstNode and nextNode: n buckets from index b on, the
\* first that differs from e; e when all equal it; NoneV when a read fails.
\* bucket = d['buckets'][b] is evaluated before every test of n, so a d without
\* a readable buckets field fails even when n is 0; the element itself is a lazy
\* value, fetched from memory only when it is compared with e
RECURSIVE ScanBuckets(_, _, _, _)
ScanBuckets(m, b, n, e) ==
    IF HdrBad(m, "buckets") THEN NoneV
    ELSE IF n = 0 THEN e
    ELSE IF b < 0 \/ b >= Len(m.buckets) THEN NoneV
    ELSE IF m.buckets[b + 1] # e THEN m.buckets[b + 1]
    ELSE ScanBuckets(m, b + 1, n - 1, e)

\* QHashPrinter._iterator.firstNode
firstNode(m) ==
    IF lookupType(m, <<"QHashData::Node">>) = NoneT THEN NoneV
    ELSE IF HdrBad(m, "numBuckets") THEN NoneV
    ELSE ScanBuckets(m, 0, m.numBuckets, m.eAddr)

\* QHashPrinter._iterator.nextNode
nextNode(m, node) ==
    IF lookupType(m, <<"QHashData::Node">>) = NoneT THEN NoneV
    ELSE IF node \notin DOMAIN m.nodes THEN NoneV
    ELSE LET next == m.nodes[node].nxt
         IN IF next \notin DOMAIN m.nodes THEN NoneV
            ELSE IF m.nodes[next].nxt # Null THEN next
            ELSE IF HdrBad(m, "numBuckets") \/ m.numBuckets = 0 THEN NoneV
            ELSE LET start == (m.nodes[node].h % m.numBuckets) + 1
                 IN ScanBuckets(m, start, m.numBuckets - start, next)

QHashNodeName(m) ==
    <<"QHashNode<">> \o TemplateArg(m, 0) \o <<", ">> \o TemplateArg(m, 1) \o <<">">>

\* QHashPrinter._iterator.hashNode: FALSE when it returns None
hashNodeOk(i, m) ==
    /\ i.node # NoneV
    /\ lookupType(m, QHashNodeName(m)) # NoneT

\* QHashPrinter._iterator.__init__: cls is the class of the iterator that uses it
QHash_iterator(cls, m) ==
    IF TemplateArgFails(m, 0) \/ TemplateArgFails(m, 1)
       \/ lookupType(m, <<"QHashData::Node">>) = NoneT
    THEN Dead(cls, 0)
    ELSE Iter(cls, firstNode(m) # NoneV, 0, 0, firstNode(m), m.eAddr, NoneT)

QHashPrinter_children(p, m) ==
    IF p.val = None THEN Dead("QHash", 0)
    ELSE IF GateMessage(p, m) # <<>> THEN Dead("QHash", 0)
    ELSE QHash_iterator("QHash", m)

\* An iterator that moves to the next node with every result, the key included
QHash_next_AdvanceAlways(i, m) ==
    IF ~i.alive THEN Stop(i)
    ELSE IF i.node = i.endNode THEN Stop(i)
    ELSE IF ~hashNodeOk(i, m) THEN Stop(i)
    ELSE IF i.node \notin DOMAIN m.nodes THEN Fault(i, "RuntimeError")
    ELSE LET n == nextNode(m, i.node)
         IN IF n = NoneV THEN Stop([i EXCEPT !.node = n])
            ELSE Yield([i EXCEPT !.count = @ + 1, !.node = n],
                       Entry(i.count + 1, IF i.count % 2 = 0 THEN "key" ELSE "value",
                             i.node))

\* node['key'] and node['value'] are read outside any try
QHash_next(i, m) ==
    IF ~i.alive THEN Stop(i)
    ELSE IF i.node = i.endNode THEN Stop(i)
    ELSE IF ~hashNodeOk(i, m) THEN Stop(i)
    ELSE IF i.node \notin DOMAIN m.nodes THEN Fault(i, "RuntimeError")
    ELSE IF i.count % 2 = 0
    THEN Yield([i EXCEPT !.count = @ + 1], Entry(i.count + 1, "key", i.node))
    ELSE LET n == nextNode(m, i.node)
         IN IF n = NoneV THEN Stop([i EXCEPT !.node = n])
            ELSE Yield([i EXCEPT !.count = @ + 1, !.node = n],
                       Entry(i.count + 1, "value", i.node))

\* ---- QSet

\* QSetPrinter.children: the hash iterator is built on val['q_hash']; alive says
\* that hashIterator is not None
QSetPrinter_children(p, m) ==
    IF HdrBad(m, "q_hash") \/ HdrBad(m, "ref") THEN Dead("QSet", 0)
    ELSE IF m.ref < 0 \/ m.ref > REF_LIMIT THEN Dead("QSet", 0)
    ELSE IF HdrBad(m, "size") THEN Dead("QSet", 0)
    ELSE IF m.size > SIZE_LIMIT THEN Dead("QSet", 0)
    ELSE [QHash_iterator("QSet", m) EXCEPT !.alive = TRUE]

\* An iterator that follows the chain pointer alone and never hops to the next
\* bucket
QSet_next_ChainOnly(i, m) ==
    IF ~i.alive THEN Stop(i)
    ELSE IF i.node = Unset \/ i.endNode = Unset THEN Fault(i, "AttributeError")
    ELSE IF i.node = i.endNode THEN Stop(i)
    ELSE IF ~hashNodeOk(i, m) THEN Fault(i, "TypeError")
    ELSE IF i.node \notin DOMAIN m.nodes THEN Fault(i, "RuntimeError")
    ELSE Yield([i EXCEPT !.count = @ + 1, !.node = m.nodes[i.node].nxt],
               Entry(i.count, "key", i.node))

\* QSetPrinter._iterator.next: no try at all
QSet_next(i, m) ==
    IF ~i.alive THEN Stop(i)
    ELSE IF i.node = Unset \/ i.endNode = Unset THEN Fault(i, "AttributeError")
    ELSE IF i.node = i.endNode THEN Stop(i)
    ELSE IF ~hashNodeOk(i, m) THEN Fault(i, "TypeError")
    ELSE IF i.node \notin DOMAIN m.nodes THEN Fault(i, "RuntimeError")
    ELSE Yield([i EXCEPT !.count = @ + 1, !.node = nextNode(m, i.node)],
               Entry(i.count, "key", i.node))

\* ---- dispatch on the class

ContainerClasses ==
    {"QByteArrayPrinter", "QListPrinter", "QVectorPrinter", "QLinkedListPrinter",
     "QMapPrinter", "QHashPrinter", "QSetPrinter"}

children(p, m) ==
    CASE p.cls = "QByteArrayPrinter"  -> QByteArrayPrinter_children(p, m)
      [] p.cls = "QListPrinter"       -> QListPrinter_children(p, m)
      [] p.cls = "QVectorPrinter"     -> QVectorPrinter_children(p, m)
      [] p.cls = "QLinkedListPrinter" -> QLinkedListPrinter_children(p, m)
      [] p.cls = "QMapPrinter"        -> QMapPrinter_children(p, m)
      [] p.cls = "QHashPrinter"       -> QHashPrinter_children(p, m)
      [] p.cls = "QSetPrinter"        -> QSetPrinter_children(p, m)

next(i, m) ==
    CASE i.cls = "QByteArray"  -> QByteArray_next(i, m)
      [] i.cls = "QList"       -> QList_next(i, m)
      [] i.cls = "QVector"     -> QVector_next(i, m)
      [] i.cls = "QLinkedList" -> QLinkedList_next(i, m)
      [] i.cls = "QMap"        -> QMap_next(i, m)
      [] i.cls = "QHash"       -> QHash_next(i, m)
      [] i.cls = "QSet"        -> QSet_next(i, m)

\* ---- the names each handler passes to lookupType

\* The constructors: QListPrinter looks up itype when it is given one, then
\* 'QVariant'; QMapPrinter and QHashPrinter look up 'QVariant' once
\* template_argument(1) was read
Lookups_Construct(f, m) ==
    CASE f.cls = "QListPrinter" ->
            IF f.itype = NoneT /\ TemplateArgFails(m, 0) THEN {}
            ELSE (IF f.itype = NoneT THEN {} ELSE {f.itype}) \cup {<<"QVariant">>}
      [] f.cls \in {"QMapPrinter", "QHashPrinter"} ->
            IF TemplateArgFails(m, 1) THEN {} ELSE {<<"QVariant">>}
      [] OTHER -> {}

Lookups_lookup_function(vt, m, order) ==
    IF vt.fails THEN {}
    ELSE LET t1 == IF TypeCode(vt) = "ref" THEN Target(vt) ELSE vt
             t2 == strip_typedefs(unqualified(t1))
             typename == TypeTag(t2)
             k == FirstMatch(order, typename, 1)
         IN IF typename = TagNone \/ k = 0 THEN {}
            ELSE Lookups_Construct(pretty_printers_dict[k].f, m)

\* The except RuntimeError branch of QUrlPrinter.to_string
Lookups_fallback(m) ==
    Reached(m, << <<"int">>, <<"void">>, <<"QString">>, <<"QByteArray">>, <<"char">> >>)

Lookups_to_string(p, m) ==
    CASE p.cls = "QStringPrinter" ->
            IF /\ ~HdrBad(m, "ref") /\ m.ref > 0 /\ m.ref < REF_LIMIT
               /\ ~HdrBad(m, "size") /\ m.size > 0 /\ ~HdrBad(m, "data")
            THEN {<<"char">>} ELSE {}
      [] p.cls = "QDateTimePrinter" ->
            LET head == Reached(m, << <<"char">>, <<"QAtomicInt">> >>)
            IN IF \/ \E n \in head : lookupType(m, n) = NoneT
                  \/ HdrBad(m, "ref") \/ m.ref < 0 \/ m.ref > REF_LIMIT
               THEN head
               ELSE head \cup Reached(m, << <<"int">>, <<"QDate">>, <<"QTime">> >>)
      [] p.cls = "QUrlPrinter" ->
            IF m.noDebug THEN Lookups_fallback(m)
            ELSE LET rf == isReferenceCorrect(p, m)
                 IN IF rf.exc = "RuntimeError" THEN Lookups_fallback(m)
                    ELSE IF rf.exc # "" \/ rf.v = FALSE THEN {}
                    ELSE IF HdrBad(m, "encodedOriginal") THEN Lookups_fallback(m)
                    ELSE {}
      [] OTHER -> {}

\* QHashPrinter._iterator.__init__ and firstNode
Lookups_QHash_iterator(m) ==
    IF TemplateArgFails(m, 0) \/ TemplateArgFails(m, 1) THEN {}
    ELSE {<<"QHashData::Node">>}

\* QSetPrinter.children builds a QHashPrinter on val['q_hash'] first
Lookups_children(p, m) ==
    CASE p.cls = "QHashPrinter" ->
            IF p.val = None \/ GateMessage(p, m) # <<>> THEN {}
            ELSE Lookups_QHash_iterator(m)
      [] p.cls = "QSetPrinter" ->
            IF \/ HdrBad(m, "q_hash") \/ HdrBad(m, "ref")
               \/ m.ref < 0 \/ m.ref > REF_LIMIT
               \/ HdrBad(m, "size") \/ m.size > SIZE_LIMIT
            THEN {}
            ELSE Lookups_Construct(Factory("QHashPrinter", None, NoneT), m)
                 \cup Lookups_QHash_iterator(m)
      [] OTHER -> {}

Lookups_next(i, m) ==
    CASE i.cls = "QList" ->
            IF /\ i.alive /\ i.count < m.end - m.begin
               /\ ~HdrBad(m, "array") /\ ElemOk(m, m.begin + i.count)
               /\ i.nodetype # NoneT
            THEN {<<"void">>, <<"QList<">> \o i.nodetype \o <<">::Node">>}
            ELSE {}
      [] i.cls = "QMap" ->
            IF i.alive /\ i.size # 0 /\ i.node # m.eAddr
            THEN LET names == Reached(m, <<QMapNodeName(m), <<"char">> >>)
                 IN IF \E n \in names : lookupType(m, n) = NoneT THEN names
                    ELSE names \cup {<<"void">>}
            ELSE {}
      [] i.cls = "QHash" ->
            IF i.alive /\ i.node # i.endNode /\ i.node # NoneV
            THEN {QHashNodeName(m)}
                 \cup (IF /\ lookupType(m, QHashNodeName(m)) # NoneT
                          /\ i.node \in DOMAIN m.nodes /\ i.count % 2 = 1
                       THEN {<<"QHashData::Node">>} ELSE {})
            ELSE {}
      [] i.cls = "QSet" ->
            IF /\ i.alive /\ i.node # Unset /\ i.endNode # Unset
               /\ i.node # i.endNode /\ i.node # NoneV
            THEN {QHashNodeName(m)}
                 \cup (IF /\ lookupType(m, QHashNodeName(m)) # NoneT
                          /\ i.node \in DOMAIN m.nodes
                       THEN {<<"QHashData::Node">>} ELSE {})
            ELSE {}
      [] OTHER -> {}

-----------------------------------------------------------------------------
(* Inputs: the values the host hands to lookup_function.  Each is a type, a  *)
(* memory image with the host's answers, and an iteration order of the dict. *)

NodeAddr(k) == 200 + 32 * k
EAddr == NodeAddr(0) - 100

NoNodes == [a \in {} |-> [nxt |-> Null, h |-> 0]]

BaseMem ==
    [ref |-> 1, size |-> 0, begin |-> 0, end |-> 0, arrLen |-> 0, text |-> <<>>,
     badHdr |-> {}, unres |-> {}, noDebug |-> FALSE,
     targs |-> << <<"int">>, <<"int">> >>, tmplFails |-> FALSE,
     nodeSize |-> 16, ptrSize |-> 4,
     eAddr |-> EAddr, eFwd |-> EAddr, nodes |-> NoNodes,
     numBuckets |-> 0, buckets |-> <<>>,
     jd |-> [hi |-> 0, lo |-> 0], mds |-> 0, truncDiv |-> TRUE, ucs |-> 97]

\* ---- well-formed contents

\* A buffer of n elements (QString, QByteArray, QVector, QList, QUrl)
Letters == <<"a", "b", "c", "d">>
ArrayMem(n) ==
    [BaseMem EXCEPT !.size = n, !.end = n, !.arrLen = n,
                    !.text = [k \in 1..n |-> Letters[((k - 1) % 4) + 1]]]

\* A QMap of n nodes: QMapNode k lies at NodeAddr(k), its QMapData::Node part
\* payload bytes further; the forward pointers chain 1, ..., n, e
MapNodePtr(k) == NodeAddr(k) + payload(BaseMem)
MapMem(n) ==
    [BaseMem EXCEPT !.size = n,
        !.eFwd = IF n = 0 THEN EAddr ELSE MapNodePtr(1),
        !.nodes = [a \in {NodeAddr(k) : k \in 1..n} |->
                     LET k == (a - NodeAddr(0)) \div 32
                     IN [nxt |-> IF k < n THEN MapNodePtr(k + 1) ELSE EAddr, h |-> 0]]]

\* A QLinkedList of n nodes: the ring e, 1, ..., n, e
ListMem(n) ==
    [BaseMem EXCEPT !.size = n,
        !.eFwd = IF n = 0 THEN EAddr ELSE NodeAddr(1),
        !.nodes = [a \in {EAddr} \cup {NodeAddr(k) : k \in 1..n} |->
                     IF a = EAddr THEN [nxt |-> IF n = 0 THEN EAddr ELSE NodeAddr(1), h |-> 0]
                     ELSE LET k == (a - NodeAddr(0)) \div 32
                          IN [nxt |-> IF k < n THEN NodeAddr(k + 1) ELSE EAddr, h |-> 0]]]

\* A QHash whose bucket j holds a chain of l[j] nodes; the nodes are numbered
\* along the buckets, node k lies at NodeAddr(k)
RECURSIVE SumTo(_, _)
SumTo(l, j) == IF j = 0 THEN 0 ELSE l[j] + SumTo(l, j - 1)

Layouts ==
    UNION {{l \in [1..B -> 0..MaxNodes] : SumTo(l, B) <= MaxNodes} : B \in 1..MaxBuckets}

BucketOf(l, k) == CHOOSE j \in 1..Len(l) : SumTo(l, j - 1) < k /\ k <= SumTo(l, j)

HashMem(l) ==
    LET n == SumTo(l, Len(l))
    IN [BaseMem EXCEPT !.size = n, !.numBuckets = Len(l),
        !.buckets = [j \in 1..Len(l) |->
                       IF l[j] = 0 THEN EAddr ELSE NodeAddr(SumTo(l, j - 1) + 1)],
        !.nodes = [a \in {EAddr} \cup {NodeAddr(k) : k \in 1..n} |->
                     IF a = EAddr THEN [nxt |-> Null, h |-> 0]
                     ELSE LET k == (a - NodeAddr(0)) \div 32
                              j == BucketOf(l, k)
                          IN [nxt |-> IF k < SumTo(l, j) THEN NodeAddr(k + 1) ELSE EAddr,
                              h |-> (j - 1) + Len(l) * (k % 2)]]]

\* ---- the kinds of value and their type tags

Kinds ==
    {"QString", "QByteArray", "QList", "QStringList", "QQueue", "QVector", "QStack",
     "QLinkedList", "QMap", "QMultiMap", "QHash", "QMultiHash", "QDateTime", "QUrl",
     "QSet"}

KindTag(kind) ==
    CASE kind = "QString"     -> S_QString
      [] kind = "QByteArray"  -> S_QByteArray
      [] kind = "QList"       -> S_QListLt \o S_int
      [] kind = "QStringList" -> S_QStringList
      [] kind = "QQueue"      -> S_QQueue \o <<"<">> \o S_int
      [] kind = "QVector"     -> S_QVectorLt \o S_int
      [] kind = "QStack"      -> S_QStackLt \o S_int
      [] kind = "QLinkedList" -> S_QLinkedListLt \o S_int
      [] kind = "QMap"        -> S_QMapLt \o S_intint
      [] kind = "QMultiMap"   -> S_QMultiMapLt \o S_intint
      [] kind = "QHash"       -> S_QHashLt \o S_intint
      [] kind = "QMultiHash"  -> S_QMultiHashLt \o S_intint
      [] kind = "QDate"       -> S_QDate
      [] kind = "QTime"       -> S_QTime
      [] kind = "QDateTime"   -> S_QDateTime
      [] kind = "QUrl"        -> S_QUrl
      [] kind = "QSet"        -> S_QSetLt \o S_int
      [] kind = "QChar"       -> S_QChar

MapKinds == {"QMap", "QMultiMap"}
HashKinds == {"QHash", "QMultiHash", "QSet"}

\* The well-formed value of n elements of a kind (a hash: one node per bucket,
\* the last bucket taking the rest)
SpreadLayout(n) == [j \in 1..2 |-> IF j = 1 THEN (IF n > 0 THEN 1 ELSE 0)
                                   ELSE (IF n > 0 THEN n - 1 ELSE 0)]
ContentMem(kind, n) ==
    CASE kind \in MapKinds      -> MapMem(n)
      [] kind \in HashKinds     -> HashMem(SpreadLayout(n))
      [] kind = "QLinkedList"   -> ListMem(n)
      [] OTHER                  -> ArrayMem(n)

PlainType(tag) == [layers |-> <<>>, tag |-> tag, fails |-> FALSE]

Input(vt, m) == [vt |-> vt, m |-> m]
KindInput(kind, m) == Input(PlainType(KindTag(kind)), m)

\* ---- the values at the gates

RefVals == {-1, 0, 1, REF_LIMIT - 1, REF_LIMIT, REF_LIMIT + 1}
SizeVals == {-1, 0, 2, 5, SIZE_LIMIT, SIZE_LIMIT + 1, 10000}

\* Every kind with every reference count and declared size over a content of
\* two elements
GateInputs ==
    {KindInput(kind, [ContentMem(kind, 2) EXCEPT !.ref = r, !.size = s, !.end = s]) :
        kind \in Kinds, r \in RefVals, s \in SizeVals}

\* The buffers with every declared size and all of the buffer readable
LongInputs ==
    {KindInput(kind, [ContentMem(kind, 2) EXCEPT !.size = s, !.end = s,
                                                 !.arrLen = 2 * SIZE_LIMIT]) :
        kind \in {"QString", "QByteArray", "QList", "QVector"}, s \in SizeVals}

\* The strings of every length up to the limit, and one with a character
\* outside ASCII
StrLens == {0, 1, 2, 3, 4, SIZE_LIMIT}
StringInputs ==
    {KindInput("QString", [ArrayMem(n) EXCEPT !.ref = r]) : n \in StrLens, r \in RefVals}
    \cup {KindInput("QString", [ArrayMem(2) EXCEPT !.text = <<"a", "e'">>])}

\* ---- failing reads and failing type queries

HdrNames ==
    {"ref", "size", "data", "begin", "end", "array", "p", "e", "numBuckets", "buckets",
     "q_hash", "encodedOriginal"}

TypeNames ==
    {<<"char">>, <<"QVariant">>, <<"QString">>, <<"int">>, <<"QAtomicInt">>, <<"QDate">>,
     <<"QByteArray">>, <<"QHashData::Node">>, QMapNodeName(BaseMem),
     QHashNodeName(BaseMem), <<"QList<", "int", ">::Node">>}

ElementTypes ==
    {<<"int">>, <<"QString">>, <<"QVariant">>, <<"Big">>, <<"Small">>, <<"int *">>,
     <<"(anonymous namespace)::Foo">>}

\* A node whose memory cannot be read
Unmap(m, a) == [m EXCEPT !.nodes = [b \in (DOMAIN m.nodes) \ {a} |-> m.nodes[b]]]

FaultInputs ==
    UNION {
      {KindInput(kind, [ContentMem(kind, MaxNodes) EXCEPT !.badHdr = {f}]) : f \in HdrNames}
      \cup {KindInput(kind, [ContentMem(kind, MaxNodes) EXCEPT !.unres = {t}]) : t \in TypeNames}
      \cup {KindInput(kind, [ContentMem(kind, MaxNodes) EXCEPT !.targs = <<t, t>>]) : t \in ElementTypes}
      \cup {KindInput(kind, [ContentMem(kind, MaxNodes) EXCEPT !.arrLen = k]) : k \in 0..(MaxNodes - 1)}
      \cup {KindInput(kind, Unmap(ContentMem(kind, MaxNodes), NodeAddr(k))) : k \in 1..MaxNodes}
      \cup {KindInput(kind, [ContentMem(kind, MaxNodes) EXCEPT !.tmplFails = TRUE]),
            KindInput(kind, [ContentMem(kind, MaxNodes) EXCEPT !.noDebug = TRUE]),
            KindInput(kind, [ContentMem(kind, MaxNodes) EXCEPT !.noDebug = TRUE, !.ref = -1]),
            KindInput(kind, [ContentMem(kind, MaxNodes) EXCEPT !.numBuckets = 0]),
            KindInput(kind, [ContentMem(kind, MaxNodes) EXCEPT !.numBuckets = 0,
                                                               !.badHdr = {"buckets"}])}
      : kind \in Kinds }

\* ---- linked structures, well-formed and with one pointer or hash overwritten

PtrTargets(n) ==
    {Null, EAddr, NodeAddr(MaxNodes + 1)}
    \cup {NodeAddr(k) : k \in 1..n} \cup {MapNodePtr(k) : k \in 1..n}

SetNext(m, a, t) == [m EXCEPT !.nodes[a].nxt = t]
SetHash(m, a, v) == [m EXCEPT !.nodes[a].h = v]

MapInputs ==
    {KindInput("QMap", MapMem(n)) : n \in 0..MaxNodes}
    \cup {KindInput("QMap", SetNext(MapMem(MaxNodes), NodeAddr(k), t)) :
             k \in 1..MaxNodes, t \in PtrTargets(MaxNodes)}
    \cup {KindInput("QMap", [MapMem(MaxNodes) EXCEPT !.size = s]) : s \in 0..(MaxNodes + 1)}

ListInputs ==
    {KindInput("QLinkedList", ListMem(n)) : n \in 0..MaxNodes}
    \cup {KindInput("QLinkedList", SetNext(ListMem(MaxNodes), NodeAddr(k), t)) :
             k \in 1..MaxNodes, t \in PtrTargets(MaxNodes)}
    \cup {KindInput("QLinkedList", [ListMem(MaxNodes) EXCEPT !.size = s]) :
             s \in 0..(MaxNodes + 2)}

FullLayouts == {l \in Layouts : SumTo(l, Len(l)) = MaxNodes /\ Len(l) <= 2}

HashInputs ==
    UNION {
      {KindInput(kind, HashMem(l)) : l \in Layouts}
      \cup {KindInput(kind, SetNext(HashMem(l), NodeAddr(k), t)) :
               l \in FullLayouts, k \in 1..MaxNodes, t \in PtrTargets(MaxNodes)}
      \cup {KindInput(kind, SetHash(HashMem(l), NodeAddr(k), v)) :
               l \in FullLayouts, k \in 1..MaxNodes, v \in 0..MaxBuckets}
      \cup {KindInput(kind, [HashMem(l) EXCEPT !.size = s]) :
               l \in FullLayouts, s \in {-1, 0, 1}}
      : kind \in {"QHash", "QSet"} }

\* ---- types and dict orders for the dispatch

LayerSet ==
    {<<>>, <<"ref">>, <<"const">>, <<"typedef">>, <<"ref", "const", "typedef">>,
     <<"typedef", "typedef", "const">>, <<"typedef", "ref">>, <<"ptr">>, <<"ref", "ptr">>}

OtherTags ==
    {TagNone, S_QQueue, S_QQueue \o <<"X">>, S_QQueue \o <<"<">> \o S_int \o <<":", ":", "T">>,
     <<"X">> \o S_QString, S_QString \o <<"X">>, S_QListLt, SubSeq(S_QListLt, 1, 5),
     S_QMapLt \o <<">">>, SubSeq(S_QMultiMapLt, 1, 9), <<"Q","O","b","j","e","c","t">>,
     <<"Q","P","a","i","r","<">> \o S_QMapLt \o S_intint \o <<",", " ">> \o S_int,
     S_QListLt \o S_QMapLt \o S_intint \o <<" ", ">">>,
     S_QListLt \o S_int \o <<":", ":", "T">>, S_QDateTime \o <<"<">> \o S_int,
     S_QSetLt \o S_QStringList \o <<">">>}

AllKinds == Kinds \cup {"QDate", "QTime", "QChar"}
AllTags == {KindTag(kind) : kind \in AllKinds} \cup OtherTags

DispatchInputs ==
    {Input([layers |-> ls, tag |-> tag, fails |-> FALSE], ArrayMem(1)) :
        ls \in LayerSet, tag \in AllTags}
    \cup {Input([layers |-> <<>>, tag |-> tag, fails |-> TRUE], ArrayMem(1)) :
             tag \in AllTags}

\* ---- dates and times

\* The halves of a day number below 2^31
Jd(n) == [hi |-> n \div 65536, lo |-> n % 65536]

\* Day numbers: the null dates, the days around the Gregorian cutover, around
\* the years 0 and 1 of the Julian calendar, 2000-01-01, the days around
\* 2^30 - 68569 and 2^32 - 68569, where the arithmetic starts to wrap, 2^31 and
\* some others
JdVals ==
    {Jd(0), [hi |-> 65535, lo |-> 65535], Jd(1), Jd(2451545), Jd(2440588), Jd(5373484)}
    \cup {Jd(1073673254), Jd(1073673255), Jd(2147483647), [hi |-> 32768, lo |-> 0],
          [hi |-> 65534, lo |-> 62502], [hi |-> 65534, lo |-> 62503],
          [hi |-> 65535, lo |-> 65534]}
    \cup {Jd(n) : n \in 2299155..2299166}
    \cup {Jd(n) : n \in 1721420..1721426}
    \cup {Jd(n) : n \in 1721055..1721060}
    \cup {Jd(n) : n \in {1720692, 1720693, 1684532, 1356182}}

DateInputs ==
    {KindInput("QDate", [BaseMem EXCEPT !.jd = j]) : j \in JdVals}
    \cup {KindInput("QDate", [BaseMem EXCEPT !.jd = Jd(2451545), !.badHdr = {"jd"}])}

MsVals ==
    {-86400001, -3661001, -1000, -2, -1, 0, 1, 999, 1000, 59999, 60000, 3599999, 3600000,
     3661001, 43200000, 86399999, 86400000, 86400001, 100000000}

TimeInputs ==
    {KindInput("QTime", [BaseMem EXCEPT !.mds = t, !.truncDiv = b]) :
        t \in MsVals, b \in BOOLEAN}
    \cup {KindInput("QTime", [BaseMem EXCEPT !.badHdr = {"mds"}])}

\* ---- characters

UcsVals == {0, 1, 34, 92, 96, 97, 100, 101, 126, 127, 128, 130, 169, 233, 2047, 2048, 8364, 55296, 65535}

CharInputs ==
    {KindInput("QChar", [BaseMem EXCEPT !.ucs = c]) : c \in UcsVals}
    \cup {KindInput("QChar", [BaseMem EXCEPT !.badHdr = {"ucs"}])}

Inputs ==
    GateInputs \cup LongInputs \cup StringInputs \cup FaultInputs \cup MapInputs \cup ListInputs
    \cup HashInputs \cup DispatchInputs \cup DateInputs \cup TimeInputs
    \cup CharInputs

-----------------------------------------------------------------------------
(* The state machine: the host looks the decoder up, asks it for its summary *)
(* and, for a container, for its children, and draws them one by one.        *)

NoOutcome == [exc |-> "unset", v |-> NoPrinter]
NoSummary == [exc |-> "unset", v |-> <<>>]

Init ==
    /\ \E x \in Inputs : vtype = x.vt /\ mem = x.m /\ dictOrder \in IterationOrders(x.vt)
    /\ pc = "start"
    /\ looked = NoOutcome
    /\ printer = NoPrinter
    /\ summary = NoSummary
    /\ summary2 = NoSummary
    /\ it = NoIter
    /\ yielded = <<>>
    /\ iterEnd = ""
    /\ typeCache = NoCache
    /\ asked = {}

\* the host calls the registered lookup_function(val)
DoLookup ==
    /\ pc = "start"
    /\ LET hm == HostView(typeCache, mem)
       IN /\ looked' = lookup_function(vtype, hm, dictOrder)
          /\ asked' = Lookups_lookup_function(vtype, hm, dictOrder)
    /\ typeCache' = CacheAfter(typeCache, mem, asked')
    /\ printer' = looked'.v
    /\ pc' = IF looked'.exc = "" /\ looked'.v.cls # None THEN "ready" ELSE "done"
    /\ UNCHANGED <<vtype, mem, dictOrder, summary, summary2, it, yielded, iterEnd>>

\* the host calls printer.to_string()
DoToString ==
    /\ pc = "ready"
    /\ printer.cls \in SummaryClasses \cup ValueClasses
    /\ summary = NoSummary
    /\ LET hm == HostView(typeCache, mem)
       IN /\ summary' = to_string(printer, hm)
          /\ asked' = Lookups_to_string(printer, hm)
    /\ typeCache' = CacheAfter(typeCache, mem, asked')
    /\ UNCHANGED <<vtype, mem, dictOrder, pc, looked, printer, summary2, it, yielded, iterEnd>>

\* the host asks the same decoder for its summary once more: to_string and the
\* gates assign no attribute of the decoder
DoToStringAgain ==
    /\ pc \in {"ready", "iter"}
    /\ summary # NoSummary
    /\ summary2 = NoSummary
    /\ LET hm == HostView(typeCache, mem)
       IN /\ summary2' = to_string(printer, hm)
          /\ asked' = Lookups_to_string(printer, hm)
    /\ typeCache' = CacheAfter(typeCache, mem, asked')
    /\ UNCHANGED <<vtype, mem, dictOrder, pc, looked, printer, summary, it, yielded, iterEnd>>

\* the host calls printer.children(), after it has asked for the summary
DoChildren ==
    /\ pc = "ready"
    /\ printer.cls \in ContainerClasses
    /\ summary # NoSummary
    /\ LET hm == HostView(typeCache, mem)
       IN /\ it' = children(printer, hm)
          /\ asked' = Lookups_children(printer, hm)
    /\ typeCache' = CacheAfter(typeCache, mem, asked')
    /\ pc' = "iter"
    /\ UNCHANGED <<vtype, mem, dictOrder, looked, printer, summary, summary2, yielded, iterEnd>>

\* the host calls next() on the iterator, until it raises
DoNext ==
    /\ pc = "iter"
    /\ iterEnd = ""
    /\ Len(yielded) < MaxYield
    /\ LET hm == HostView(typeCache, mem)
           r == next(it, hm)
       IN /\ it' = r.it
          /\ yielded' = IF r.exc = "" THEN Append(yielded, r.out) ELSE yielded
          /\ iterEnd' = r.exc
          /\ asked' = Lookups_next(it, hm)
    /\ typeCache' = CacheAfter(typeCache, mem, asked')
    /\ UNCHANGED <<vtype, mem, dictOrder, pc, looked, printer, summary, summary2>>

Next == DoLookup \/ DoToString \/ DoToStringAgain \/ DoChildren \/ DoNext

Spec == Init /\ [][Next]_vars

-----------------------------------------------------------------------------
(* Properties *)

RefBad(m) == m.ref < 0 \/ m.ref > REF_LIMIT

\* The element count the size gate looks at: d.size, for a QList d.end - d.begin
ElemCount(p, m) == IF p.cls = "QListPrinter" THEN m.end - m.begin ELSE m.size

SizeBad(p, m) == ElemCount(p, m) < 0 \/ ElemCount(p, m) > SIZE_LIMIT

\* The except branch of the constructor ran: the template argument could not be read
CtorFailed(p, m) ==
    /\ TemplateArgFails(m, 0)
    /\ \/ p.cls \in {"QVectorPrinter", "QLinkedListPrinter"}
       \/ p.cls = "QListPrinter" /\ p.container = None

\* The fixed messages of to_string: what it returns when it renders nothing of
\* the object
FixedMessages == {NotInitialized, NotInitializedDot, TooLarge, ArrayTooLarge, QVariantMsg}

\* C1: to_string of every decoder of a shared-buffer object returns the
\* "Not initialized" placeholder whenever the reference count is < 0 or > 512,
\* whatever the other fields hold.  Stated in its weakest reading: with such a
\* reference count to_string returns one of the fixed messages, never a
\* rendering of the object.
C1_BadRefNotInitialized ==
    (summary # NoSummary /\ RefBad(mem))
        => (summary.exc = "" /\ summary.v \in FixedMessages)

\* C2: when the reference gate or the size gate fails, children() of every
\* container decoder yields nothing: no oversized or negative-sized container
\* is truncated and shown.
C2_GateFailYieldsNothing ==
    (pc = "iter" /\ (RefBad(mem) \/ SizeBad(printer, mem))) => yielded = <<>>

\* C3: one enumeration yields at most SIZE_LIMIT results, whatever the memory
\* holds, QMap and QHash with their two results per node included.
C3_AtMostSizeLimit == Len(yielded) <= SIZE_LIMIT

\* C4: to_string never raises, and after a failed constructor it returns the
\* "Not initialized" message.
C4_ToStringTotal ==
    /\ summary.exc \in {"unset", ""}
    /\ (summary.exc = "" /\ CtorFailed(printer, mem)) => summary.v = NotInitialized

\* C5: a read that fails during next() ends the enumeration at that call with
\* end-of-sequence: no other exception reaches the host and no placeholder is
\* yielded in the element's place.
C5_FaultEndsEnumeration ==
    /\ iterEnd \in {"", "StopIteration"}
    /\ \A k \in 1..Len(yielded) : yielded[k] # EmptyStr

\* C6: every enumeration of a container that passed both gates is finite.  The
\* memory does not change and next() is a function of the iterator and the
\* memory, so an enumeration of a linked structure that has yielded more than
\* two results per readable node stands at a node and phase it has stood at
\* before, and repeats from there for ever.
C6_EnumerationFinite ==
    (/\ pc = "iter"
     /\ printer.cls \in {"QMapPrinter", "QHashPrinter", "QSetPrinter"}
     /\ ~RefBad(mem) /\ ~SizeBad(printer, mem))
        => Len(yielded) <= 2 * Cardinality(DOMAIN mem.nodes)

\* C7: lookup_function never raises, and a failure while the decoder is
\* constructed makes it return None, not a half-constructed decoder.
C7_LookupDegradesToNone ==
    /\ looked.exc \in {"unset", ""}
    /\ (looked.exc = "" /\ CtorFailed(looked.v, mem)) => looked.v = NoPrinter

\* ---- C8

\* The tag of the type behind at most one reference and any typedefs and
\* qualifiers; TagNone when what is left is no tagged type
BareTag(vt) ==
    LET ls == IF vt.layers # <<>> /\ Head(vt.layers) = "ref" THEN Tail(vt.layers)
              ELSE vt.layers
    IN IF \A k \in 1..Len(ls) : ls[k] \in {"const", "typedef"} THEN vt.tag ELSE TagNone

\* The first entry, in insertion order, whose pattern matches; 0 when none does
FirstInserted(tag) ==
    LET hits == {k \in 1..NEntries : search(build_dictionary[k].pat, tag)}
    IN IF hits = {} THEN 0 ELSE CHOOSE k \in hits : \A j \in hits : k <= j

\* C8: lookup_function strips one reference level and the typedefs and
\* qualifiers, returns None for a type without tag, else the decoder built by
\* the first entry in insertion order whose pattern matches the tag, None when
\* none matches, whatever the iteration order of the pattern table.
C8_FirstInsertedMatchWins ==
    (pc # "start" /\ ~vtype.fails) =>
        LET tag == BareTag(vtype)
            k == IF tag = TagNone THEN 0 ELSE FirstInserted(tag)
        IN looked = Ret(IF k = 0 THEN NoPrinter
                        ELSE Construct(build_dictionary[k].f, mem))

C8_Witness ==
    /\ pc # "start"
    /\ dictOrder = <<4>>
    /\ vtype.layers = <<"ref", "const", "typedef">>
    /\ looked.exc = ""
    /\ looked.v.cls = "QListPrinter"
    /\ looked.v.container = "QStringList"

\* ---- C9

\* The memory is a well-formed QMap of m.size nodes behind a valid header
WellFormedMap(m) ==
    /\ ~RefBad(m)
    /\ m.size \in 0..MaxNodes
    /\ [m EXCEPT !.ref = 1] = MapMem(m.size)

\* How many nodes of the memory hash to each bucket
LayoutOf(m) ==
    [j \in 1..m.numBuckets |->
        Cardinality({a \in DOMAIN m.nodes :
                        a # m.eAddr /\ m.nodes[a].h % m.numBuckets = j - 1})]

\* The memory is a well-formed hash table behind a valid header: every node
\* chained in the bucket it hashes to, every chain ending at e
WellFormedHash(m) ==
    /\ ~RefBad(m)
    /\ m.numBuckets \in 1..MaxBuckets
    /\ m.size \in 0..MaxNodes
    /\ Cardinality(DOMAIN m.nodes) = m.size + 1
    /\ [m EXCEPT !.ref = 1] = HashMem(LayoutOf(m))

\* Results 1..2n are key and value of nodes 1..n, in this order
PairedUpTo(ys, n) ==
    /\ Len(ys) <= 2 * n
    /\ \A k \in 1..Len(ys) :
          /\ ys[k].at = NodeAddr((k + 1) \div 2)
          /\ ys[k].f = IF k % 2 = 1 THEN "key" ELSE "value"

\* C9: children() of a well-formed QMap or QHash of n pairs yields exactly 2n
\* results, the key of a node at every even position (from 0) and the value of
\* the same node right after it, the nodes in traversal order, none skipped
\* or repeated.
C9_KeyValuePairing ==
    (/\ pc = "iter"
     /\ \/ printer.cls = "QMapPrinter" /\ WellFormedMap(mem)
        \/ printer.cls = "QHashPrinter" /\ WellFormedHash(mem))
      => /\ PairedUpTo(yielded, mem.size)
         /\ iterEnd # "" => (iterEnd = "StopIteration" /\ Len(yielded) = 2 * mem.size)

C9_Witness ==
    /\ pc = "iter"
    /\ printer.cls = "QHashPrinter"
    /\ WellFormedHash(mem)
    /\ LayoutOf(mem) = <<2, 1>>
    /\ iterEnd = "StopIteration"
    /\ Len(yielded) = 6

\* ---- C10

\* The keys that the QHash iterator yields on memory m, in order
RECURSIVE HashKeysFrom(_, _, _)
HashKeysFrom(i, m, fuel) ==
    LET r == QHash_next(i, m)
    IN IF fuel = 0 \/ r.exc # "" THEN <<>>
       ELSE (IF r.out.f = "key" THEN <<r.out.at>> ELSE <<>>)
            \o HashKeysFrom(r.it, m, fuel - 1)

HashKeys(m) == HashKeysFrom(QHash_iterator("QHash", m), m, 2 * MaxNodes + 1)

\* C10: children() of a well-formed QSet of n elements yields exactly n
\* results, each a key, and their sequence is the key sequence of the QHash
\* traversal of the underlying q_hash: nothing dropped, nothing twice.
C10_SetFollowsHashKeys ==
    (pc = "iter" /\ printer.cls = "QSetPrinter" /\ WellFormedHash(mem)) =>
        LET keys == HashKeys(mem)
        IN /\ Len(yielded) <= Len(keys)
           /\ \A k \in 1..Len(yielded) : yielded[k].f = "key" /\ yielded[k].at = keys[k]
           /\ \A j, k \in 1..Len(yielded) : yielded[j].at = yielded[k].at => j = k
           /\ iterEnd # "" => (/\ iterEnd = "StopIteration"
                               /\ Len(yielded) = mem.size
                               /\ Len(yielded) = Len(keys))

C10_Witness ==
    /\ pc = "iter"
    /\ printer.cls = "QSetPrinter"
    /\ WellFormedHash(mem)
    /\ LayoutOf(mem) = <<1, 2>>
    /\ iterEnd = "StopIteration"
    /\ Len(yielded) = 3

\* ---- C11, C12

\* The not-initialized placeholders of to_string
NotInitializedMessages == {NotInitialized, NotInitializedDot, <<"not initialized.">>}

\* Every read of the header and every type lookup succeeds
NothingFails(m) == m.badHdr = {} /\ m.unres = {} /\ ~m.noDebug /\ ~m.tmplFails

\* to_string of the QString decoder has returned or raised
StringSummarized == summary # NoSummary /\ printer.cls = "QStringPrinter"

\* C11: with a reference count the decoder accepts and a declared length above
\* SIZE_LIMIT, over a readable buffer, QStringPrinter.to_string returns a quoted
\* truncated prefix with an ellipsis and the address, not a placeholder.
C11_LongStringTruncated ==
    (/\ StringSummarized
     /\ NothingFails(mem)
     /\ mem.ref > 0 /\ mem.ref < REF_LIMIT
     /\ mem.size > SIZE_LIMIT
     /\ mem.arrLen >= mem.size)
      => (/\ summary.exc = ""
          /\ summary.v \notin NotInitializedMessages
          /\ Head(summary.v) = "\"")

\* C12: for a string of N ASCII code units, 0 <= N <= SIZE_LIMIT, with a
\* reference count the decoder accepts, QStringPrinter.to_string returns exactly
\* those N characters between double quotes (N = 0: the two quotes alone); a
\* negative declared length gives a not-initialized placeholder.
C12_StringRoundTrip ==
    (StringSummarized /\ NothingFails(mem) /\ mem.ref > 0 /\ mem.ref < REF_LIMIT) =>
        /\ (/\ mem.size \in 0..SIZE_LIMIT
            /\ mem.size = Len(mem.text)
            /\ \A k \in 1..Len(mem.text) : CodeOf(mem.text[k]) < 128)
              => summary = Ret(<<"\"">> \o mem.text \o <<"\"">>)
        /\ mem.size < 0 => (summary.exc = "" /\ summary.v \in NotInitializedMessages)

C12_Witness ==
    /\ StringSummarized
    /\ NothingFails(mem)
    /\ mem.ref = REF_LIMIT - 1
    /\ mem.size = SIZE_LIMIT
    /\ Len(mem.text) = SIZE_LIMIT
    /\ Len(summary.v) = SIZE_LIMIT + 2
    /\ summary.v[2] = "a" /\ summary.v[SIZE_LIMIT + 1] = "d"

\* ---- C13, C14, C15

\* to_string of the QDate decoder has returned over a readable day number
DateSummarized ==
    summary # NoSummary /\ printer.cls = "QDatePrinter" /\ ~HdrBad(mem, "jd")

\* The day number is one of the two null dates
NullDate(m) == (m.jd.hi = 0 /\ m.jd.lo = 0) \/ (m.jd.hi = 65535 /\ m.jd.lo = 65535)

\* The day number is 2^30 - 68569 (16382 * 65536 + 62503) or more: 4 * ell
\* does not fit 32 bits
Wraps(m) == m.jd.hi > 16382 \/ (m.jd.hi = 16382 /\ m.jd.lo >= 62503)

\* C13: QDatePrinter.to_string gives the invalid-date placeholder for the day
\* numbers 0 and 0xffffffff, "2000-01-01" for 2451545, 1582-10-04 by the Julian
\* branch for 2299160 and 1582-10-15 by the Gregorian branch for 2299161, and
\* every date is year-month-day, three numbers joined by dashes with month and
\* day filled to two digits: exactly two digits each for the day numbers whose
\* arithmetic fits 32 bits.
C13_DateBoundary ==
    DateSummarized =>
        /\ summary.exc = ""
        /\ NullDate(mem) <=> summary.v = InvalidDate
        /\ mem.jd = Jd(2451545) =>
              summary.v = <<"2", "0", "0", "0", "-", "0", "1", "-", "0", "1">>
        /\ mem.jd = Jd(2299160) =>
              /\ ~IsGregorian(mem)
              /\ summary.v = <<"1", "5", "8", "2", "-", "1", "0", "-", "0", "4">>
        /\ mem.jd = Jd(2299161) =>
              /\ IsGregorian(mem)
              /\ summary.v = <<"1", "5", "8", "2", "-", "1", "0", "-", "1", "5">>
        /\ ~NullDate(mem) =>
              LET n == Len(summary.v)
                  dashes == {k \in 1..n : summary.v[k] = "-"}
              IN /\ Cardinality(dashes) = 2
                 /\ \A k \in (1..n) \ dashes : summary.v[k] \in {DigitChar(c) : c \in 0..9}
                 /\ \E p \in dashes, q \in dashes : p >= 2 /\ q >= p + 3 /\ n >= q + 2
                 /\ ~Wraps(mem) => (dashes = {n - 5, n - 2})

C13_Witness ==
    /\ DateSummarized
    /\ mem.jd = Jd(2299161)
    /\ summary = Ret(<<"1", "5", "8", "2", "-", "1", "0", "-", "1", "5">>)

\* C14: in the Julian branch a computed year y <= 0 is printed as y - 1, so
\* QDatePrinter.to_string never prints the year 0.
C14_YearZeroStepDown ==
    (/\ DateSummarized
     /\ ~NullDate(mem)
     /\ ~IsGregorian(mem)
     /\ JulianDate_StepDown(JulianDay(mem)).y < 0)
      => LET r == JulianDate_StepDown(JulianDay(mem))
         IN summary = Ret(Format(r.y, 0) \o <<"-">> \o Format(r.m, 2) \o <<"-">> \o Format(r.d, 2))

\* to_string of the QTime decoder has returned over a readable field
TimeSummarized ==
    summary # NoSummary /\ printer.cls = "QTimePrinter" /\ ~HdrBad(mem, "mds")

\* C15: QTimePrinter.to_string returns the invalid-time placeholder exactly
\* when the milliseconds value is negative or above 86400000, and zero-padded
\* HH:MM:SS.mmm for every other value.
C15_TimeValidity ==
    TimeSummarized =>
        /\ summary.v = InvalidTime <=> TimeRejected_Range(mem.mds)
        /\ ~TimeRejected_Range(mem.mds) =>
              summary = Ret(Format(mem.mds \div 3600000, 2) \o <<":">>
                            \o Format((mem.mds % 3600000) \div 60000, 2) \o <<":">>
                            \o Format((mem.mds \div 1000) % 60, 2) \o <<".">>
                            \o Format(mem.mds % 1000, 3))

\* ---- C16, C17, C18

\* C16: a second to_string on the same decoder over the same memory returns
\* what the first returned; to_string and the gates leave the decoder as
\* lookup_function built it; and every name the cache has an entry for is
\* answered through the cache as the host answers it, so the entries added
\* between the two calls change no result.
C16_ToStringIdempotent ==
    summary2 # NoSummary =>
        /\ summary2 = summary
        /\ printer = looked.v
        /\ \A n \in DOMAIN typeCache :
              lookupTypeCall(typeCache, mem, n).ret = lookupType(mem, n)

C16_Witness ==
    /\ printer.cls = "QDateTimePrinter"
    /\ summary2 # NoSummary
    /\ summary2 = summary
    /\ summary.v \notin NotInitializedMessages
    /\ {<<"char">>, <<"QAtomicInt">>, <<"int">>, <<"QDate">>, <<"QTime">>} \subseteq DOMAIN typeCache

\* C17: after a call of lookupType(name) has returned, resolved or not,
\* typeCache holds an entry for name.
C17_LookupAlwaysCached == \A n \in asked : n \in DOMAIN typeCache

\* C18: the QString, QDateTime and QSet decoders accept the reference counts 0
\* and REF_LIMIT: with such a count, every read and lookup succeeding and the
\* element count within 0..SIZE_LIMIT, to_string renders the object and returns
\* no not-initialized placeholder.
C18_BoundaryRefAccepted ==
    (/\ summary # NoSummary
     /\ printer.cls \in {"QStringPrinter", "QDateTimePrinter", "QSetPrinter"}
     /\ NothingFails(mem)
     /\ mem.ref \in {0, REF_LIMIT}
     /\ mem.size \in 0..SIZE_LIMIT
     /\ printer.cls = "QStringPrinter" => mem.size <= Len(mem.text))
      => (summary.exc = "" /\ summary.v \notin NotInitializedMessages)

=============================================================================
